---- MODULE Spec2Model ----
(***************************************************************************)
(* Model of the Azure DevOps reporting scripts: the area-path -> team      *)
(* resolution used by every script and the revision walk of                *)
(* blocked_paused.py (process_revisions).                                  *)
(*                                                                         *)
(* Python strings that the code takes apart (tags, area paths, dates,      *)
(* team names) are sequences of one-character strings, so that split,      *)
(* strip, upper, startswith and the lexicographic < are computed as the    *)
(* code computes them.  Opaque strings (State, Action, ...) are TLA+       *)
(* strings.                                                                *)
(***************************************************************************)
EXTENDS Integers, Sequences, FiniteSets, TLC

VARIABLES
    script,             \* which script runs
    pc,                 \* position of the script
    project,            \* the project being processed
    teams_resp,         \* listTeams response: sequence of team names
    team_values,        \* teamfieldvalues response per team: sequence of area paths
    prefs_map,          \* area path -> list of teams
    all_teams,          \* set of known team names
    start_iso,          \* window start
    wid,                \* the work item id
    closed_date_global, \* closed_date_cache.get(str(wid), '')
    fetched,            \* what fetch_all_revisions returns, in fetch order
    revs,               \* the sorted timeline
    idx,                \* 1-based position of the for loop in revs
    prev_tags,          \* None or Some(tag set)
    rows,               \* the rows returned so far
    actual_state, actual_area, actual_value_area, actual_team,
    run,                \* how many times process_revisions has been started
    rows_first,         \* rows returned by the first run
    area,               \* fixed-index scripts: AreaPath of the item
    team_name,          \* fixed-index scripts: the team computed for the item
    boards,             \* boards response per team: sequence of boards with columns
    split_columns,      \* (board, column, team) -> isSplit
    curr_col, entry_dt, entry_done,  \* None or Some(value): the open dwell
    data_rows,          \* the dwell rows of the project so far
    proj_pos,           \* 1-based position of the project loop in PROJECTS
    listing_ok,         \* per project: do the team and area listings succeed
    item_count,         \* per project: how many work-item ids the query returns
    tasks,              \* per work item of the project: its task
    all_rows,           \* the rows collected over all projects
    closed_resp,        \* per project: how the server answers each workitemsbatch request
    closed_date_cache,  \* str(id) -> ClosedDate, the module-level dict
    skip, all_revs,     \* fetch_all_revisions: the $skip of the next request, the revisions so far
    page_log            \* the ($skip, $top) of the revision requests sent so far

vars == << script, pc, project, teams_resp, team_values, prefs_map, all_teams,
           start_iso, wid, closed_date_global, fetched, revs, idx, prev_tags,
           rows, actual_state, actual_area, actual_value_area, actual_team,
           run, rows_first, area, team_name, boards, split_columns, curr_col,
           entry_dt, entry_done, data_rows, proj_pos, listing_ok, item_count,
           tasks, all_rows, closed_resp, closed_date_cache, skip, all_revs,
           page_log >>

----------------------------------------------------------------------------
(* Bounds of the model *)

MaxRevs == 3
MaxDepth == 3
MaxItems == 2
\* the most work-item ids the query of one project returns
MaxIds == 3
\* the longest history the server holds for one work item
MaxHistory == 5
\* BATCH_SIZE and page_size of the code (200 both), scaled down
BATCH_SIZE == 2
page_size == 2

----------------------------------------------------------------------------
(* Python values *)

\* '' : the empty str.  None is modelled by the same value wherever the code
\* only tests truthiness (`if not team_name`), where None and '' behave alike.
EmptyStr == << >>

\* prev_tags is tested with `is None`, so None and set() must differ.
None == << >>
Some(x) == << x >>

RECURSIVE Split(_, _)
\* str.split(sep) for a one-character sep: ''.split(sep) = ['']
Split(s, sep) ==
    IF s = << >> THEN << << >> >>
    ELSE LET rest == Split(Tail(s), sep)
         IN  IF Head(s) = sep
             THEN << << >> >> \o rest
             ELSE << << Head(s) >> \o Head(rest) >> \o Tail(rest)

RECURSIVE LStrip(_)
LStrip(s) == IF s # << >> /\ Head(s) = " " THEN LStrip(Tail(s)) ELSE s

RECURSIVE RStrip(_)
RStrip(s) ==
    IF s # << >> /\ s[Len(s)] = " " THEN RStrip(SubSeq(s, 1, Len(s) - 1)) ELSE s

\* str.strip()
Strip(s) == LStrip(RStrip(s))

LowerAlpha == << "a","b","c","d","e","f","g","h","i","j","k","l","m",
                 "n","o","p","q","r","s","t","u","v","w","x","y","z" >>
UpperAlpha == << "A","B","C","D","E","F","G","H","I","J","K","L","M",
                 "N","O","P","Q","R","S","T","U","V","W","X","Y","Z" >>

UpperTable ==
    [c \in { LowerAlpha[k] : k \in 1..Len(LowerAlpha) } |->
        UpperAlpha[CHOOSE k \in 1..Len(LowerAlpha) : LowerAlpha[k] = c]]

UpperChar(c) == IF c \in DOMAIN UpperTable THEN UpperTable[c] ELSE c

\* str.upper()
Upper(s) == [k \in 1..Len(s) |-> UpperChar(s[k])]

\* str.lower()
LowerTable ==
    [c \in { UpperAlpha[k] : k \in 1..Len(UpperAlpha) } |->
        LowerAlpha[CHOOSE k \in 1..Len(UpperAlpha) : UpperAlpha[k] = c]]

LowerChar(c) == IF c \in DOMAIN LowerTable THEN LowerTable[c] ELSE c

Lower(s) == [k \in 1..Len(s) |-> LowerChar(s[k])]

DigitChars == << "0","1","2","3","4","5","6","7","8","9" >>
\* int(c) of a digit character
DigitValue(c) == (CHOOSE k \in 1..10 : DigitChars[k] = c) - 1

RECURSIVE Str(_)
\* str(n) of an int n >= 0
Str(n) ==
    IF n < 10 THEN << DigitChars[n + 1] >>
    ELSE Str(n \div 10) \o << DigitChars[(n % 10) + 1] >>

\* JSON null / None, where the code tells it from ''
JsonNull == << "null" >>

\* d.get(key, default)
Get(d, key, default) == IF key \in DOMAIN d THEN d[key] ELSE default

\* d[key] = value
DictSet(d, key, value) ==
    [k \in DOMAIN d \cup { key } |-> IF k = key THEN value ELSE d[k]]

RECURSIVE IntOf(_)
\* the int a decimal str denotes
IntOf(s) ==
    IF Len(s) = 1 THEN DigitValue(s[1])
    ELSE IntOf(SubSeq(s, 1, Len(s) - 1)) * 10 + DigitValue(s[Len(s)])

\* x if a < b else b
Min(a, b) == IF a < b THEN a ELSE b

\* str.startswith(p)
StartsWith(s, p) == Len(s) >= Len(p) /\ SubSeq(s, 1, Len(p)) = p

\* The characters of the model in code-point order (ord(c) rises along it).
CodePointOrder == << " ", ".", "0","1","2","3","4","5","6","7","8","9", ";" >>
                  \o UpperAlpha \o << "\\", "_" >> \o LowerAlpha

OrdTable ==
    [c \in { CodePointOrder[k] : k \in 1..Len(CodePointOrder) } |->
        CHOOSE k \in 1..Len(CodePointOrder) : CodePointOrder[k] = c]

\* ord(c), up to the gaps between the characters of the model
Ord(c) == OrdTable[c]

RECURSIVE StrLess(_, _)
\* a < b on str: lexicographic by code point, a proper prefix is smaller
StrLess(a, b) ==
    IF b = << >> THEN FALSE
    ELSE IF a = << >> THEN TRUE
    ELSE IF Head(a) = Head(b) THEN StrLess(Tail(a), Tail(b))
    ELSE Ord(Head(a)) < Ord(Head(b))

\* reversed(parts) / parts[::-1]
Reversed(s) == [k \in 1..Len(s) |-> s[Len(s) + 1 - k]]

\* the orders in which a Python set of str may be iterated (hash order)
Orderings(S) ==
    { f \in [1..Cardinality(S) -> S] :
        \A a, b \in 1..Cardinality(S) : a # b => f[a] # f[b] }

----------------------------------------------------------------------------
(* Literals of the code *)

BACKSLASH == "\\"
BLOCKED == << "B","L","O","C","K","E","D" >>
PAUSED == << "P","A","U","S","E","D" >>
AllowedTypes == { "Feature", "User Story", "Spike", "Bug", "Fix", "Vulnerability" }

----------------------------------------------------------------------------
(* The preference map: area path -> list of teams that declared it *)

EmptyMap == [k \in {} |-> << >>]

\* prefs_map.setdefault(key, []).append(team)
SetDefaultAppend(m, key, team) ==
    IF key \in DOMAIN m
    THEN [m EXCEPT ![key] = Append(@, team)]
    ELSE [k \in DOMAIN m \cup {key} |-> IF k = key THEN << team >> ELSE m[k]]

RECURSIVE AddStrippedValues(_, _, _)
\* blocked_paused.py: for v in values: val = v.strip(); if val: setdefault/append
AddStrippedValues(m, team, vals) ==
    IF vals = << >> THEN m
    ELSE LET val == Strip(Head(vals))
         IN  AddStrippedValues(
                 IF val # EmptyStr THEN SetDefaultAppend(m, val, team) ELSE m,
                 team, Tail(vals))

RECURSIVE AddRawValues(_, _, _)
\* the other scripts: for p in prefs: setdefault/append (no strip, '' kept)
AddRawValues(m, team, vals) ==
    IF vals = << >> THEN m
    ELSE AddRawValues(SetDefaultAppend(m, Head(vals), team), team, Tail(vals))

RECURSIVE BuildPrefsStripped(_, _, _)
BuildPrefsStripped(m, teams, values) ==
    IF teams = << >> THEN m
    ELSE BuildPrefsStripped(AddStrippedValues(m, Head(teams), values[Head(teams)]),
                            Tail(teams), values)

RECURSIVE BuildPrefsRaw(_, _, _)
BuildPrefsRaw(m, teams, values) ==
    IF teams = << >> THEN m
    ELSE BuildPrefsRaw(AddRawValues(m, Head(teams), values[Head(teams)]),
                       Tail(teams), values)

SeqToSet(s) == { s[k] : k \in 1..Len(s) }

----------------------------------------------------------------------------
(* blocked_paused.py, fetch_closed_dates: the closed-date cache *)

EmptyCache == [k \in {} |-> EmptyStr]

\* what the server holds as the ClosedDate of a closed work item
ClosedOn == << "9", "T", "0", "Z" >>

\* How the server may answer one workitemsbatch request:
\*   "fail"  an error status or a transport error (RequestException)
\*   "dates" every work item of the batch, each with its ClosedDate
\*   "open"  every work item, the ClosedDate null or not among the fields
\*   "short" the work items of the batch but the last, each with its ClosedDate
BatchAnswers == { "fail", "dates", "open", "short" }

EmptyFields == [k \in {} |-> EmptyStr]

\* one element of the response's 'value'; the id comes back as an int
WorkItemOf(kind, strId, k) ==
    [ id     |-> IntOf(strId),
      fields |-> IF kind = "open"
                 THEN IF k % 2 = 1 THEN [ ClosedDate |-> JsonNull ] ELSE EmptyFields
                 ELSE [ ClosedDate |-> ClosedOn ] ]

BatchResponse(kind, batch) ==
    [ ok    |-> kind # "fail",
      value |-> [k \in 1..(IF kind = "short" THEN Len(batch) - 1 ELSE Len(batch)) |->
                    WorkItemOf(kind, batch[k], k)] ]

\* v or ''
OrEmpty(v) == IF v = JsonNull \/ v = EmptyStr THEN EmptyStr ELSE v

RECURSIVE StoreClosedDates(_, _)
\* lines 72-75: for wi in value: closed_date_cache[str(wi.get('id'))] = ... or ''
StoreClosedDates(cache, items) ==
    IF items = << >> THEN cache
    ELSE StoreClosedDates(
             DictSet(cache, Str(Head(items).id),
                     OrEmpty(Get(Head(items).fields, "ClosedDate", EmptyStr))),
             Tail(items))

\* faulty variant: a failed batch leaves the cache as it is
StoreEmpty_Skip(cache, batch) == cache

RECURSIVE StoreEmpty(_, _)
\* lines 76-78: for wid in batch: closed_date_cache[str(wid)] = ''
StoreEmpty(cache, batch) ==
    IF batch = << >> THEN cache
    ELSE StoreEmpty(DictSet(cache, Head(batch), EmptyStr), Tail(batch))

\* faulty variant: the closed dates are not fetched before the pool starts
fetch_closed_dates_Later(cache, ids, answers) == cache

\* lines 61-78: one batch, its request and what is cached from the answer
CacheBatch(cache, batch, kind) ==
    LET resp == BatchResponse(kind, batch)
    IN  IF resp.ok THEN StoreClosedDates(cache, resp.value)
        ELSE StoreEmpty(cache, batch)

RECURSIVE fetch_closed_dates(_, _, _)
\* for i in range(0, len(ids), BATCH_SIZE): batch = ids[i:i+BATCH_SIZE]; ...
\* answers: how the server answers the requests, one after the other
fetch_closed_dates(cache, ids, answers) ==
    IF ids = << >> THEN cache
    ELSE LET n == Min(BATCH_SIZE, Len(ids))
         IN  fetch_closed_dates(CacheBatch(cache, SubSeq(ids, 1, n), Head(answers)),
                                SubSeq(ids, n + 1, Len(ids)), Tail(answers))

\* the ints the query of the project at position p returns (ids are unique
\* over the organisation), and line 257: ids = [str(w['id']) for w in ...]
IdOf(p, i) == (p - 1) * MaxIds + i
Ids(p, count) == [i \in 1..count |-> Str(IdOf(p, i))]

----------------------------------------------------------------------------
(* Team resolution, blocked_paused.py (reversed scan over all segments) *)

\* faulty variant: the preference map is not consulted
ExactMatchFirst_Never(source, pm) == EmptyStr

\* prefs_map.get(src, [None])[0] if src in prefs_map else None
ExactMatchFirst(source, pm) ==
    IF source \in DOMAIN pm THEN pm[source][1] ELSE EmptyStr

RECURSIVE ScanSegments(_, _, _)
\* for seg in segs: if not team and seg in all_teams: team = seg
ScanSegments(team, segs, teams) ==
    IF segs = << >> THEN team
    ELSE ScanSegments(IF team = EmptyStr /\ Head(segs) \in teams
                      THEN Head(segs) ELSE team,
                      Tail(segs), teams)

\* faulty variant: no project fallback
OrProject_Keep(team, proj) == team

\* if not team: team = project
OrProject(team, proj) == IF team = EmptyStr THEN proj ELSE team

ResolveReversed(source, proj, pm, teams) ==
    OrProject(ScanSegments(ExactMatchFirst(source, pm),
                           Reversed(Split(source, BACKSLASH)), teams),
              proj)

(* Team resolution, the other scripts (fixed indexes 2, 1, 0) *)

\* area in prefs_map and len(prefs_map[area]) == 1
UniqueExactMatch(path, pm) == path \in DOMAIN pm /\ Len(pm[path]) = 1

\* faulty variant: no fallback to the project
FallbackProject_Empty(proj) == EmptyStr

FallbackProject(proj) == proj

ResolveFixedIndex(path, proj, pm, teams) ==
    LET parts == Split(path, BACKSLASH)
    IN  IF UniqueExactMatch(path, pm) THEN pm[path][1]
        ELSE IF Len(parts) >= 3 /\ parts[3] \in teams THEN parts[3]
        ELSE IF Len(parts) >= 2 /\ parts[2] \in teams THEN parts[2]
        ELSE IF Len(parts) >= 1 /\ parts[1] \in teams THEN parts[1]
        ELSE FallbackProject(proj)

----------------------------------------------------------------------------
(* Sorting *)

RevLess(a, b) == a.rev < b.rev
ChangedDateLess(a, b) == StrLess(a.fields.ChangedDate, b.fields.ChangedDate)

RECURSIVE InsertByRev(_, _)
\* insert x after every element whose key is <= x's key (stable)
InsertByRev(x, s) ==
    IF s = << >> THEN << x >>
    ELSE IF RevLess(x, Head(s)) THEN << x >> \o s
    ELSE << Head(s) >> \o InsertByRev(x, Tail(s))

\* faulty variant: the revisions are walked in fetch order
SortByRev_FetchOrder(s) == s

RECURSIVE SortByRev(_)
\* sorted(revs, key=lambda x: x['rev']): stable, ascending
SortByRev(s) ==
    IF s = << >> THEN << >>
    ELSE InsertByRev(s[Len(s)], SortByRev(SubSeq(s, 1, Len(s) - 1)))

RECURSIVE InsertByChangedDate(_, _)
InsertByChangedDate(x, s) ==
    IF s = << >> THEN << x >>
    ELSE IF ChangedDateLess(x, Head(s)) THEN << x >> \o s
    ELSE << Head(s) >> \o InsertByChangedDate(x, Tail(s))

RECURSIVE SortByChangedDate(_)
\* sorted(revs, key=lambda x: x["fields"].get("System.ChangedDate", ""))
SortByChangedDate(s) ==
    IF s = << >> THEN << >>
    ELSE InsertByChangedDate(s[Len(s)], SortByChangedDate(SubSeq(s, 1, Len(s) - 1)))

----------------------------------------------------------------------------
(* blocked_paused.py, process_revisions: helpers of the revision loop *)

\* faulty variant: only undated revisions are skipped
OutsideWindow_UndatedOnly(changed, start) == changed = EmptyStr

\* if not changed or changed < start_iso: continue
OutsideWindow(changed, start) == changed = EmptyStr \/ StrLess(changed, start)

\* faulty variant: the tags keep their letter case
ParseTags_NoUpper(s) ==
    { Strip(t) : t \in { x \in SeqToSet(Split(s, ";")) : Strip(x) # EmptyStr } }

\* set(t.strip().upper() for t in tags.split(';') if t.strip())
ParseTags(s) ==
    { Upper(Strip(t)) : t \in { x \in SeqToSet(Split(s, ";")) : Strip(x) # EmptyStr } }

\* {t for t in tags if t.startswith('BLOCKED')}
BlockedOf(tags) == { t \in tags : StartsWith(t, BLOCKED) }

\* {'PAUSED'} if 'PAUSED' in tags else set()
PausedOf(tags) == IF PAUSED \in tags THEN { PAUSED } ELSE {}

\* faulty variant: the loop starts with an empty tag set as its baseline
InitialPrevTags_EmptySet == Some({})

\* prev_tags = None before the loop
InitialPrevTags == None

\* faulty variant: every change of PAUSED is reported as Added
PausedEvent_AlwaysAdded(prev, cur) ==
    IF (PausedOf(cur) \ PausedOf(prev)) # {} \/ (PausedOf(prev) \ PausedOf(cur)) # {}
    THEN << << PAUSED, "Added" >> >>
    ELSE << >>

\* lines 184-186: the PAUSED event of one revision
PausedEvent(prev, cur) ==
    IF (PausedOf(cur) \ PausedOf(prev)) # {} \/ (PausedOf(prev) \ PausedOf(cur)) # {}
    THEN << << PAUSED, IF (PausedOf(cur) \ PausedOf(prev)) # {}
                       THEN "Added" ELSE "Removed" >> >>
    ELSE << >>

\* faulty variant: removals are not reported
Events_NoRemoved(prev, cur, addOrder, remOrder) ==
    [k \in 1..Len(addOrder) |-> << addOrder[k], "Added" >>]
    \o PausedEvent(prev, cur)

\* the events list of one revision; addOrder and remOrder are the orders in
\* which the two set differences are iterated
Events(prev, cur, addOrder, remOrder) ==
    [k \in 1..Len(addOrder) |-> << addOrder[k], "Added" >>]
    \o [k \in 1..Len(remOrder) |-> << remOrder[k], "Removed" >>]
    \o PausedEvent(prev, cur)

\* faulty variant: the team is taken from the revision's own area path
TeamSource_OwnArea(actualArea, flds) == flds.AreaPath

\* team_source = actual_area or flds.get('System.AreaPath', '')
TeamSource(actualArea, flds) ==
    IF actualArea # EmptyStr THEN actualArea ELSE flds.AreaPath

\* x or y on str
Or(x, y) == IF x # EmptyStr THEN x ELSE y

RECURSIVE JoinStr(_, _)
\* sep.join(parts)
JoinStr(parts, sep) ==
    IF parts = << >> THEN EmptyStr
    ELSE IF Len(parts) = 1 THEN Head(parts)
    ELSE Head(parts) \o sep \o JoinStr(Tail(parts), sep)

\* sorted(a set of str)
SortedStrs(S) ==
    CHOOSE f \in Orderings(S) :
        \A a, b \in 1..Cardinality(S) : a < b => StrLess(f[a], f[b])

\* the dict appended to rows for one event
Row(rev, event, teamName, tagSet) ==
    LET flds == rev.fields
        tag == event[1]
    IN  [ Project         |-> project,
          Team            |-> teamName,
          WorkItemId      |-> wid,
          Revision        |-> rev.rev,
          ChangedDate     |-> flds.ChangedDate,
          WorkItemType    |-> flds.WorkItemType,
          Title           |-> flds.Title,
          AreaPath        |-> flds.AreaPath,
          ValueArea       |-> actual_value_area,
          State           |-> flds.State,
          Tags            |-> JoinStr(SortedStrs(tagSet), << ";" >>),
          ClosedDate      |-> Or(flds.ClosedDate, closed_date_global),
          ActualState     |-> actual_state,
          ActualAreaPath  |-> actual_area,
          ActualTeam      |-> actual_team,
          ActualValueArea |-> actual_value_area,
          Keyword         |-> IF StartsWith(tag, BLOCKED) THEN BLOCKED ELSE tag,
          Tag             |-> IF StartsWith(tag, BLOCKED) THEN tag ELSE EmptyStr,
          Action          |-> event[2] ]

----------------------------------------------------------------------------
(* blocked_paused.py: the script *)

\* the loop over the projects and the tasks of a project; the steps of one
\* work item leave them alone
runState == << proj_pos, listing_ok, item_count, tasks, all_rows >>
\* fetch_all_revisions
pageState == << skip, all_revs, page_log >>
\* what the script is given and what the server holds
env == << script, project, teams_resp, team_values, start_iso, wid, fetched,
          runState, closed_resp >>
inputs == << env, closed_date_global, closed_date_cache, pageState >>
actuals == << actual_state, actual_area, actual_value_area, actual_team >>
fixedIndexState == << area, team_name >>
dwellState == << curr_col, entry_dt, entry_done, data_rows >>
boardState == << boards, split_columns >>

\* lines 225-260: teams, prefs_map and all_teams of the project, the ids of
\* its work items and their closed dates
LoadTeamsBlockedPaused ==
    /\ pc = "load"
    /\ script = "blocked_paused"
    /\ prefs_map' = BuildPrefsStripped(EmptyMap, teams_resp, team_values)
    /\ all_teams' = SeqToSet(teams_resp)
    /\ closed_date_cache' =
          fetch_closed_dates(closed_date_cache, Ids(proj_pos, item_count[proj_pos]),
                             closed_resp[proj_pos])
    /\ pc' = "process"
    /\ UNCHANGED << env, closed_date_global, pageState, actuals, fixedIndexState, dwellState, boardState, revs, idx, prev_tags, rows,
                    run, rows_first >>

\* lines 110-120: fetch_all_revisions raises RequestException -> return []
FetchFails ==
    /\ pc = "process"
    /\ run' = run + 1
    /\ closed_date_global' = Get(closed_date_cache, Str(wid), EmptyStr)
    /\ rows' = << >>
    /\ pc' = "returned"
    /\ UNCHANGED << env, closed_date_cache, pageState, actuals, fixedIndexState, dwellState, boardState, prefs_map, all_teams, revs,
                    idx, prev_tags, rows_first >>

\* lines 110-146: fetch, sort, the "actual" context of the last revision
BeginProcess ==
    /\ pc = "process"
    /\ run' = run + 1
    /\ closed_date_global' = Get(closed_date_cache, Str(wid), EmptyStr)
    /\ rows' = << >>
    /\ IF fetched = << >>
       THEN /\ pc' = "returned"
            /\ UNCHANGED << actuals, revs, idx, prev_tags >>
       ELSE LET sorted == SortByRev(fetched)
                last   == sorted[Len(sorted)].fields
            IN  /\ revs' = sorted
                /\ actual_state' = last.State
                /\ actual_area' = last.AreaPath
                /\ actual_value_area' = last.ValueArea
                /\ actual_team' = ResolveReversed(Or(last.AreaPath, EmptyStr),
                                                  project, prefs_map, all_teams)
                /\ prev_tags' = InitialPrevTags
                /\ idx' = 1
                /\ pc' = "loop"
    /\ UNCHANGED << env, closed_date_cache, pageState, fixedIndexState, dwellState,
                    boardState, prefs_map, all_teams, rows_first >>

\* lines 148-152: the revision has no ChangedDate or is dated before the window
SkipRevision ==
    /\ pc = "loop"
    /\ idx <= Len(revs)
    /\ OutsideWindow(revs[idx].fields.ChangedDate, start_iso)
    /\ idx' = idx + 1
    /\ UNCHANGED << inputs, actuals, fixedIndexState, dwellState, boardState, prefs_map, all_teams, revs,
                    prev_tags, rows, run, rows_first, pc >>

\* lines 154-159: the first revision that is not skipped becomes the baseline
SetBaseline ==
    /\ pc = "loop"
    /\ idx <= Len(revs)
    /\ ~OutsideWindow(revs[idx].fields.ChangedDate, start_iso)
    /\ prev_tags = None
    /\ prev_tags' = Some(ParseTags(revs[idx].fields.Tags))
    /\ idx' = idx + 1
    /\ UNCHANGED << inputs, actuals, fixedIndexState, dwellState, boardState, prefs_map, all_teams, revs,
                    rows, run, rows_first, pc >>

\* lines 154-211: a later revision is diffed against prev_tags
EmitTransitions ==
    /\ pc = "loop"
    /\ idx <= Len(revs)
    /\ ~OutsideWindow(revs[idx].fields.ChangedDate, start_iso)
    /\ prev_tags # None
    /\ LET rev     == revs[idx]
           tag_set == ParseTags(rev.fields.Tags)
           prev    == prev_tags[1]
           team    == ResolveReversed(TeamSource(actual_area, rev.fields),
                                      project, prefs_map, all_teams)
       IN  \E addOrder \in Orderings(BlockedOf(tag_set) \ BlockedOf(prev)),
              remOrder \in Orderings(BlockedOf(prev) \ BlockedOf(tag_set)) :
               LET events == Events(prev, tag_set, addOrder, remOrder)
               IN  /\ rows' = rows \o [k \in 1..Len(events) |->
                                          Row(rev, events[k], team, tag_set)]
                   /\ prev_tags' = Some(tag_set)
    /\ idx' = idx + 1
    /\ UNCHANGED << inputs, actuals, fixedIndexState, dwellState, boardState, prefs_map, all_teams, revs,
                    run, rows_first, pc >>

\* line 213: return rows
ReturnRows ==
    /\ pc = "loop"
    /\ idx > Len(revs)
    /\ pc' = "returned"
    /\ UNCHANGED << inputs, actuals, fixedIndexState, dwellState, boardState, prefs_map, all_teams, revs,
                    idx, prev_tags, rows, run, rows_first >>

\* process_revisions is started a second time on the same inputs
Rerun ==
    /\ pc = "returned"
    /\ run = 1
    /\ rows_first' = rows
    /\ pc' = "process"
    /\ UNCHANGED << inputs, actuals, fixedIndexState, dwellState, boardState, prefs_map, all_teams, revs,
                    idx, prev_tags, rows, run >>

----------------------------------------------------------------------------
(* workitems_column_times.py: split columns, timestamps, the dwell row *)

\* b["name"].lower() in ("epics", "features", "stories")
TrackedBoards ==
    { << "e","p","i","c","s" >>,
      << "f","e","a","t","u","r","e","s" >>,
      << "s","t","o","r","i","e","s" >> }

EmptySplit == [k \in {} |-> FALSE]

\* (b["name"].lower().strip(), c["name"].lower().strip(), team.lower().strip())
SplitKey(boardName, columnName, team) ==
    << Strip(Lower(boardName)), Strip(Lower(columnName)), Strip(Lower(team)) >>

RECURSIVE AddBoardColumns(_, _, _, _)
\* for c in columns: split_columns[key] = c.get("isSplit", False)
AddBoardColumns(d, boardName, team, columns) ==
    IF columns = << >> THEN d
    ELSE AddBoardColumns(
             DictSet(d, SplitKey(boardName, Head(columns).name, team),
                     Head(columns).isSplit),
             boardName, team, Tail(columns))

RECURSIVE AddTeamBoards(_, _, _)
\* for b in boards: if tracked: <columns of b>; break
AddTeamBoards(d, team, bs) ==
    IF bs = << >> THEN d
    ELSE IF Lower(Head(bs).name) \in TrackedBoards
         THEN AddBoardColumns(d, Head(bs).name, team, Head(bs).columns)
         ELSE AddTeamBoards(d, team, Tail(bs))

RECURSIVE BuildSplitColumns(_, _, _)
BuildSplitColumns(d, teams, bds) ==
    IF teams = << >> THEN d
    ELSE BuildSplitColumns(AddTeamBoards(d, Head(teams), bds[Head(teams)]),
                           Tail(teams), bds)

\* split_columns.get(key, False)
SplitGet(d, key) == IF key \in DOMAIN d THEN d[key] ELSE FALSE

\* "Done" if split and entry_done else ("Doing" if split else "")
SplitStateOf(d, key, entryDone) ==
    IF SplitGet(d, key) /\ entryDone THEN "Done"
    ELSE IF SplitGet(d, key) THEN "Doing" ELSE ""

\* area.split("\\")[-1].strip().lower()
AreaKey(path) ==
    LET parts == Split(path, BACKSLASH) IN Lower(Strip(parts[Len(parts)]))

\* key = (col.lower(), curr_col.lower(), area_key)
ChangeKey(col, currCol, path) == << Lower(col), Lower(currCol), AreaKey(path) >>

\* key = (curr_col.lower(), curr_col.lower(), area_key)
FinalKey(currCol, path) == << Lower(currCol), Lower(currCol), AreaKey(path) >>

\* cd[:19]: the timestamp without fraction and zone, "<day>T<hour>" here
DateTimePart(cd) == SubSeq(cd, 1, IF Len(cd) < 3 THEN Len(cd) ELSE 3)

\* datetime.strptime(s, "%Y-%m-%dT%H:%M:%S"), in hours since day 0
Strptime(s) == DigitValue(s[1]) * 24 + DigitValue(s[3])

\* datetime.strptime(cd[:19], ...) - timedelta(hours=3)
LocalTime(cd) == Strptime(DateTimePart(cd)) - 3

\* dt.strftime("%Y-%m-%d %H:%M:%S"), "<day> <hh>" here
Strftime(t) ==
    << DigitChars[(t \div 24) + 1], " ",
       DigitChars[((t % 24) \div 10) + 1], DigitChars[((t % 24) % 10) + 1] >>

\* closed_str: '' or the shifted closing date, formatted
ClosedStr(closedRaw) ==
    IF closedRaw # EmptyStr THEN Strftime(LocalTime(closedRaw)) ELSE EmptyStr

\* round(hours / 24, 2) in hundredths of a day (round half to even)
RoundDays(hours) ==
    LET n == hours * 100
        q == n \div 24
        r == n % 24
    IN  IF 2 * r < 24 THEN q
        ELSE IF 2 * r > 24 THEN q + 1
        ELSE IF q % 2 = 0 THEN q ELSE q + 1

\* the dict appended to data_rows for one interval; the title of the model's
\* items does not contain "Epic"
DwellRow(column, splitState, entryDt, endDt) ==
    LET last == revs[Len(revs)].fields
    IN  [ Project      |-> project,
          WorkItemID   |-> wid,
          Team         |-> team_name,
          Title        |-> last.Title,
          WorkItemType |-> last.WorkItemType,
          Board        |-> IF last.WorkItemType = "Feature"
                           THEN "Features" ELSE "Stories",
          AreaPath     |-> area,
          Column       |-> column,
          SplitState   |-> splitState,
          Start        |-> Strftime(entryDt),
          End          |-> Strftime(endDt),
          Days         |-> RoundDays(endDt - entryDt),
          ClosedDate   |-> ClosedStr(last.ClosedDate) ]

----------------------------------------------------------------------------
(* The scripts that resolve the team with the fixed-index chain *)

\* workitems_column_times.py 63-94 (issues_base.py 108-124,
\* report_status.py 119-135): team_area_map, prefs_map, all_teams, and in
\* workitems_column_times.py the split_columns of the project
LoadTeamsFixedIndex ==
    /\ pc = "load"
    /\ script # "blocked_paused"
    /\ prefs_map' = BuildPrefsRaw(EmptyMap, teams_resp, team_values)
    /\ all_teams' = SeqToSet(teams_resp)
    /\ split_columns' = IF script = "column_times"
                        THEN BuildSplitColumns(EmptySplit, teams_resp, boards)
                        ELSE split_columns
    /\ pc' = "item"
    /\ UNCHANGED << inputs, actuals, fixedIndexState, dwellState, boards, revs, idx,
                    prev_tags, rows, run, rows_first >>

\* workitems_column_times.py 124-167: sort by ChangedDate, last revision,
\* type filter, team of the item, and the empty dwell state before the loop
ResolveItemColumnTimes ==
    /\ pc = "item"
    /\ script = "column_times"
    /\ LET sorted == SortByChangedDate(fetched)
       IN  IF sorted = << >>
           THEN /\ pc' = "skipped"
                /\ UNCHANGED << revs, idx, area, team_name, curr_col, entry_dt,
                                entry_done >>
           ELSE LET last == sorted[Len(sorted)].fields
                IN  IF last.WorkItemType \notin AllowedTypes
                    THEN /\ pc' = "skipped"
                         /\ UNCHANGED << revs, idx, area, team_name, curr_col,
                                         entry_dt, entry_done >>
                    ELSE /\ revs' = sorted
                         /\ area' = last.AreaPath
                         /\ team_name' = ResolveFixedIndex(last.AreaPath, project,
                                                           prefs_map, all_teams)
                         /\ curr_col' = None
                         /\ entry_dt' = None
                         /\ entry_done' = None
                         /\ idx' = 1
                         /\ pc' = "dwell"
    /\ UNCHANGED << inputs, actuals, boardState, prefs_map, all_teams, prev_tags,
                    rows, run, rows_first, data_rows >>

\* issues_base.py 136-158 and report_status.py 150-166: the current fields of
\* one work item (those of its latest revision), then the team of the item
ResolveItemFields ==
    /\ pc = "item"
    /\ script \in { "issues_base", "report_status" }
    /\ fetched # << >>
    /\ LET sorted == SortByRev(fetched)
           fields == sorted[Len(sorted)].fields
       IN  IF script = "issues_base" /\ fields.WorkItemType # "Issue"
           THEN pc' = "skipped" /\ UNCHANGED << area, team_name >>
           ELSE /\ area' = fields.AreaPath
                /\ team_name' = ResolveFixedIndex(fields.AreaPath, project,
                                                  prefs_map, all_teams)
                /\ pc' = "row"
    /\ UNCHANGED << inputs, actuals, dwellState, boardState, prefs_map, all_teams,
                    revs, idx, prev_tags, rows, run, rows_first >>

----------------------------------------------------------------------------
(* workitems_column_times.py: the dwell loop of one work item *)

dwellFrame == << inputs, actuals, fixedIndexState, boardState, prefs_map,
                 all_teams, revs, prev_tags, rows, run, rows_first >>

\* col, done_flag, cd of the revision under the loop
ColOf(rev) == rev.fields.BoardColumn
DoneOf(rev) == rev.fields.BoardColumnDone
CdOf(rev) == rev.fields.ChangedDate

\* faulty variant: only revisions without a changed date are skipped
Invalid_NoDateOnly(rev) == CdOf(rev) = EmptyStr

\* if not col or not cd: continue
Invalid(rev) == ColOf(rev) = EmptyStr \/ CdOf(rev) = EmptyStr

\* faulty variant: every valid revision closes the interval
Differs_Always(rev, currCol, entryDone) == TRUE

\* faulty variant: only a change of column closes the interval
Differs_ColumnOnly(rev, currCol, entryDone) == ColOf(rev) # currCol

\* col != curr_col or done_flag != entry_done
Differs(rev, currCol, entryDone) ==
    ColOf(rev) # currCol \/ DoneOf(rev) # entryDone

\* lines 169-174: the revision lacks a board column or a changed date
DwellSkip ==
    /\ pc = "dwell"
    /\ idx <= Len(revs)
    /\ Invalid(revs[idx])
    /\ idx' = idx + 1
    /\ UNCHANGED << dwellFrame, dwellState, pc >>

\* lines 175-179: the first valid revision opens the dwell
DwellFirst ==
    /\ pc = "dwell"
    /\ idx <= Len(revs)
    /\ ~Invalid(revs[idx])
    /\ curr_col = None
    /\ curr_col' = Some(ColOf(revs[idx]))
    /\ entry_dt' = Some(LocalTime(CdOf(revs[idx])))
    /\ entry_done' = Some(DoneOf(revs[idx]))
    /\ idx' = idx + 1
    /\ UNCHANGED << dwellFrame, data_rows, pc >>

\* line 181, condition false: same column and same done flag
DwellSame ==
    /\ pc = "dwell"
    /\ idx <= Len(revs)
    /\ ~Invalid(revs[idx])
    /\ curr_col # None
    /\ ~Differs(revs[idx], curr_col[1], entry_done[1])
    /\ idx' = idx + 1
    /\ UNCHANGED << dwellFrame, dwellState, pc >>

\* lines 181-202: the column or the done flag changed
DwellChange ==
    /\ pc = "dwell"
    /\ idx <= Len(revs)
    /\ ~Invalid(revs[idx])
    /\ curr_col # None
    /\ Differs(revs[idx], curr_col[1], entry_done[1])
    /\ LET rev == revs[idx]
           dt  == LocalTime(CdOf(rev))
           key == ChangeKey(ColOf(rev), curr_col[1], area)
       IN  /\ data_rows' = Append(data_rows,
                                  DwellRow(curr_col[1],
                                           SplitStateOf(split_columns, key, entry_done[1]),
                                           entry_dt[1], dt))
           /\ curr_col' = Some(ColOf(rev))
           /\ entry_dt' = Some(dt)
           /\ entry_done' = Some(DoneOf(rev))
    /\ idx' = idx + 1
    /\ UNCHANGED << dwellFrame, pc >>

\* faulty variant: the open dwell is never closed
HasClosingDate_Never(closedStr) == FALSE

\* ... and closed_str
HasClosingDate(closedStr) == closedStr # EmptyStr

\* faulty variant: the closing date is not shifted as the other timestamps are
FinalEnd_Unshifted(closedRaw) == Strptime(DateTimePart(closedRaw))

\* dt_end = datetime.strptime(closed_raw[:19], ...) - timedelta(hours=3)
FinalEnd(closedRaw) == LocalTime(closedRaw)

\* lines 204-226: after the last revision, the segment up to the closing date
FinalSegment ==
    /\ pc = "dwell"
    /\ idx > Len(revs)
    /\ LET closedRaw == revs[Len(revs)].fields.ClosedDate
       IN  IF curr_col # None /\ entry_dt # None /\ HasClosingDate(ClosedStr(closedRaw))
           THEN LET dtEnd == FinalEnd(closedRaw)
                    key   == FinalKey(curr_col[1], area)
                IN  data_rows' = Append(data_rows,
                                        DwellRow(curr_col[1],
                                                 SplitStateOf(split_columns, key,
                                                              entry_done[1]),
                                                 entry_dt[1], dtEnd))
           ELSE data_rows' = data_rows
    /\ pc' = "item_done"
    /\ UNCHANGED << dwellFrame, curr_col, entry_dt, entry_done, idx >>

----------------------------------------------------------------------------
(* Inputs of the model *)

Proj == << "P" >>
TeamA == << "A" >>
TeamB == << "B" >>
Sub == << "S" >>
Teams == { TeamA, TeamB }
Segments == { Proj, TeamA, TeamB, Sub }

Path(segs) == JoinStr(segs, << BACKSLASH >>)
PathProjA == Path(<< Proj, TeamA >>)
PathProjB == Path(<< Proj, TeamB >>)
OtherPath == Path(<< Proj, Sub, Sub, Sub, Sub, Sub >>)

\* Timestamps keep the shape of the API's "YYYY-MM-DDThh:mm:ss[.fff]Z" in the
\* short form "<day>T<hour>[.<fraction>]Z"; start_iso is "<day>T0Z".
StartIso == << "2", "T", "0", "Z" >>
DayBefore == << "1", "T", "0", "Z" >>
AtStart == << "2", "T", "0", "Z" >>
FractionAfterStart == << "2", "T", "0", ".", "5", "Z" >>
DayAfter == << "3", "T", "0", "Z" >>
Dates == { EmptyStr, DayBefore, AtStart, FractionAfterStart, DayAfter }

\* the timestamp h hours after the window start
HourDate(h) == << "2", "T", DigitChars[h + 1], "Z" >>

BLOCKED_A == BLOCKED \o << "_", "A" >>
BLOCKED_B == BLOCKED \o << "_", "B" >>
OTHER_TAG == << "U", "X" >>
TagsNone == EmptyStr
TagsA == BLOCKED_A
TagsAB == BLOCKED_A \o << ";" >> \o BLOCKED_B
TagsBPaused == << "b","l","o","c","k","e","d","_","B", ";", " " >> \o PAUSED
TagsAOther == BLOCKED_A \o << ";" >> \o OTHER_TAG
TagsAPaused == BLOCKED_A \o << ";" >> \o PAUSED
TagStrings == { TagsNone, TagsA, TagsAB, TagsBPaused, TagsAOther }

StateNames == << "New", "Active", "Resolved", "Closed", "Removed", "Design" >>

Fields(date, tags, state, areaPath, type) ==
    [ ChangedDate  |-> date,
      Tags         |-> tags,
      State        |-> state,
      AreaPath     |-> areaPath,
      ValueArea    |-> "Business",
      ClosedDate   |-> EmptyStr,
      WorkItemType |-> type,
      Title        |-> "title",
      BoardColumn     |-> EmptyStr,
      BoardColumnDone |-> FALSE ]

Rev(n, date, tags, state, areaPath) ==
    [ rev |-> n, fields |-> Fields(date, tags, state, areaPath, "User Story") ]

\* a revision older than the window, numbered below every other one
OldRev == Rev(0, DayBefore, TagsNone, "New", PathProjB)
OldHistory == { << >>, << OldRev >> }

DefaultValues == [t \in Teams |-> IF t = TeamA THEN << PathProjA >> ELSE << >>]

\* a board with its columns, as the boards and columns requests return them
Column(name, isSplit) == [ name |-> name, isSplit |-> isSplit ]
Board(name, columns) == [ name |-> name, columns |-> columns ]
NoBoards == [t \in Teams |-> << >>]

ProjTwo == << "Q" >>
PROJECTS == << Proj, ProjTwo >>

\* the most workitemsbatch requests of one project
MaxBatches == (MaxIds + BATCH_SIZE - 1) \div BATCH_SIZE

\* every batch request is answered with the closed dates
DefaultAnswers == [p \in 1..Len(PROJECTS) |-> [b \in 1..MaxBatches |-> "dates"]]

\* one work item of the first project: nothing of the project loop is used
OneItem ==
    /\ proj_pos = 1
    /\ listing_ok = [k \in 1..Len(PROJECTS) |-> TRUE]
    /\ item_count = [k \in 1..Len(PROJECTS) |-> 1]
    /\ tasks = << >>
    /\ all_rows = << >>

ItemInputsOf(id, teams, values, timelines, boardChoices) ==
    /\ project = Proj
    /\ teams_resp = teams
    /\ team_values = values
    /\ prefs_map = EmptyMap
    /\ all_teams = {}
    /\ start_iso = StartIso
    /\ wid = id
    /\ closed_date_global = EmptyStr
    /\ closed_date_cache = EmptyCache
    /\ skip = 0
    /\ all_revs = << >>
    /\ page_log = << >>
    /\ fetched \in timelines
    /\ revs = << >>
    /\ idx = 0
    /\ prev_tags = None
    /\ rows = << >>
    /\ actual_state = ""
    /\ actual_area = EmptyStr
    /\ actual_value_area = ""
    /\ actual_team = EmptyStr
    /\ run = 0
    /\ rows_first = << >>
    /\ area = EmptyStr
    /\ team_name = EmptyStr
    /\ boards \in boardChoices
    /\ split_columns = EmptySplit
    /\ curr_col = None
    /\ entry_dt = None
    /\ entry_done = None
    /\ data_rows = << >>

ItemInputs(teams, values, timelines, boardChoices) ==
    ItemInputsOf(1, teams, values, timelines, boardChoices)

InitWithBoards(scr, teams, values, timelines, boardChoices) ==
    /\ script = scr
    /\ pc = "load"
    /\ OneItem
    /\ closed_resp = DefaultAnswers
    /\ ItemInputs(teams, values, timelines, boardChoices)

InitWith(scr, teams, values, timelines) ==
    InitWithBoards(scr, teams, values, timelines, { NoBoards })

----------------------------------------------------------------------------
(* The loop over the projects, the worker pool of blocked_paused.py and the
   item loop of workitems_column_times.py.  What one work item yields is
   modelled by the steps above; here item i of a project yields i rows. *)

runFrame == << script, teams_resp, team_values, start_iso, wid, closed_date_global,
               fetched, actuals, fixedIndexState, boardState, revs, idx, prev_tags,
               rows, run, rows_first, curr_col, entry_dt, entry_done, listing_ok,
               item_count, closed_resp, pageState >>

\* what the worker tasks of a project read
projectMaps == << prefs_map, all_teams, closed_date_cache >>

\* the rows process_revisions (or the dwell loop) returns for item i
ItemRows(proj, i) ==
    [k \in 1..i |-> [ Project |-> proj, WorkItemId |-> i, Revision |-> k + 1 ]]

\* how the request for the revisions of one item may end
FetchOutcomes == { "ok", "status", "raise" }

\* faulty variant: the rows of the item are returned although its fetch failed
TaskResult_KeepRows(outcome, itemRows) == itemRows

\* blocked_paused.py 117-120: raise_for_status and the transport errors are
\* RequestException -> return []
TaskResult(outcome, itemRows) == IF outcome = "ok" THEN itemRows ELSE << >>

\* the AreaPath of the last revision of item i
ItemArea(i) == IF i % 2 = 1 THEN PathProjA ELSE PathProjB

\* the rows of item i as a worker builds them: the ClosedDate is the one read
\* from the cache at line 110 (the revisions of these items carry none), the
\* Team is resolved with the prefs_map and all_teams the task was given
TaskRows(proj, i, closed, pm, teams) ==
    [k \in 1..Len(ItemRows(proj, i)) |->
        [ Project    |-> ItemRows(proj, i)[k].Project,
          WorkItemId |-> ItemRows(proj, i)[k].WorkItemId,
          Revision   |-> ItemRows(proj, i)[k].Revision,
          ClosedDate |-> closed,
          Team       |-> ResolveReversed(ItemArea(i), proj, pm, teams) ]]

Submitted ==
    [ state |-> "submitted", outcome |-> "none", result |-> << >>,
      closed |-> EmptyStr ]

\* faulty variant: the result of a task replaces what was collected
Extend_Assign(list, result) == result

\* all_rows.extend(result)
Extend(list, result) == list \o result

\* for project in PROJECTS: the next iteration, or the end of the loop
NextProject ==
    /\ proj_pos' = proj_pos + 1
    /\ project' = IF proj_pos + 1 <= Len(PROJECTS) THEN PROJECTS[proj_pos + 1]
                  ELSE project

\* blocked_paused.py 216-260 and 272-274: teams, prefs_map, all_teams, ids and
\* the closed dates of the ids; a RequestException of the listings skips the
\* project
BeginProjectBlockedPaused ==
    /\ pc = "projects"
    /\ script = "blocked_paused"
    /\ proj_pos <= Len(PROJECTS)
    /\ IF listing_ok[proj_pos]
       THEN /\ prefs_map' = BuildPrefsStripped(EmptyMap, teams_resp, team_values)
            /\ all_teams' = SeqToSet(teams_resp)
            /\ closed_date_cache' =
                  fetch_closed_dates(closed_date_cache,
                                     Ids(proj_pos, item_count[proj_pos]),
                                     closed_resp[proj_pos])
            /\ tasks' = << >>
            /\ pc' = "pool"
            /\ UNCHANGED << proj_pos, project >>
       ELSE /\ NextProject
            /\ UNCHANGED << tasks, pc, projectMaps >>
    /\ UNCHANGED << runFrame, all_rows, data_rows >>

\* blocked_paused.py 264-268: exe.submit(process_revisions, wid, ...) for the
\* next id; the tasks submitted before may already run
SubmitTask ==
    /\ pc = "pool"
    /\ Len(tasks) < item_count[proj_pos]
    /\ tasks' = Append(tasks, Submitted)
    /\ UNCHANGED << runFrame, projectMaps, all_rows, data_rows, proj_pos, project, pc >>

\* a worker starts process_revisions for one id: line 110 reads the cache
StartTask(i) ==
    /\ pc = "pool"
    /\ i \in DOMAIN tasks
    /\ tasks[i].state = "submitted"
    /\ tasks' = [tasks EXCEPT ![i].state = "running",
                              ![i].closed = Get(closed_date_cache,
                                                Str(IdOf(proj_pos, i)), EmptyStr)]
    /\ UNCHANGED << runFrame, projectMaps, all_rows, data_rows, proj_pos, project, pc >>

\* the worker fetches the revisions, walks them and returns its rows
RunTask(i) ==
    /\ pc = "pool"
    /\ i \in DOMAIN tasks
    /\ tasks[i].state = "running"
    /\ \E outcome \in FetchOutcomes :
          tasks' = [tasks EXCEPT ![i].state = "done",
                                 ![i].outcome = outcome,
                                 ![i].result =
                                     TaskResult(outcome,
                                                TaskRows(project, i, tasks[i].closed,
                                                         prefs_map, all_teams))]
    /\ UNCHANGED << runFrame, projectMaps, all_rows, data_rows, proj_pos, project, pc >>

\* blocked_paused.py 269-270: as_completed yields a finished future, once
\* every id was submitted
Collect(i) ==
    /\ pc = "pool"
    /\ Len(tasks) = item_count[proj_pos]
    /\ i \in DOMAIN tasks
    /\ tasks[i].state = "done"
    /\ all_rows' = Extend(all_rows, tasks[i].result)
    /\ tasks' = [tasks EXCEPT ![i].state = "collected"]
    /\ UNCHANGED << runFrame, projectMaps, data_rows, proj_pos, project, pc >>

\* every future was yielded: the with block ends, next project
EndPool ==
    /\ pc = "pool"
    /\ Len(tasks) = item_count[proj_pos]
    /\ \A i \in DOMAIN tasks : tasks[i].state = "collected"
    /\ NextProject
    /\ pc' = "projects"
    /\ UNCHANGED << runFrame, projectMaps, tasks, all_rows, data_rows >>

\* blocked_paused.py 276-282: the export, also of an empty list
ExportBlockedPaused ==
    /\ pc = "projects"
    /\ script = "blocked_paused"
    /\ proj_pos > Len(PROJECTS)
    /\ pc' = "exported"
    /\ UNCHANGED << runFrame, projectMaps, tasks, all_rows, data_rows, proj_pos, project >>

\* workitems_column_times.py 54-113: the listings are not guarded, a failure
\* ends the script
BeginProjectColumnTimes ==
    /\ pc = "projects"
    /\ script = "column_times"
    /\ proj_pos <= Len(PROJECTS)
    /\ IF listing_ok[proj_pos]
       THEN /\ tasks' = [i \in 1..item_count[proj_pos] |-> Submitted]
            /\ data_rows' = << >>
            /\ pc' = "items"
       ELSE /\ pc' = "died"
            /\ UNCHANGED << tasks, data_rows >>
    /\ UNCHANGED << runFrame, projectMaps, all_rows, proj_pos, project >>

\* workitems_column_times.py 115-226: the next id of the loop; a status other
\* than 200 skips the item, an exception of requests.get ends the script
ItemColumnTimes ==
    /\ pc = "items"
    /\ \E i \in DOMAIN tasks :
          /\ tasks[i].state = "submitted"
          /\ \A j \in DOMAIN tasks : tasks[j].state = "submitted" => i <= j
          /\ \E outcome \in FetchOutcomes :
                /\ tasks' = [tasks EXCEPT ![i].state = "done",
                                           ![i].outcome = outcome]
                /\ data_rows' = IF outcome = "ok"
                                THEN data_rows \o ItemRows(project, i)
                                ELSE data_rows
                /\ pc' = IF outcome = "raise" THEN "died" ELSE pc
    /\ UNCHANGED << runFrame, projectMaps, all_rows, proj_pos, project >>

\* workitems_column_times.py 231-232: all_data_rows.extend(data_rows)
EndItems ==
    /\ pc = "items"
    /\ \A i \in DOMAIN tasks : tasks[i].state = "done"
    /\ all_rows' = all_rows \o data_rows
    /\ NextProject
    /\ pc' = "projects"
    /\ UNCHANGED << runFrame, projectMaps, tasks, data_rows >>

\* workitems_column_times.py 234-243
ExportColumnTimes ==
    /\ pc = "projects"
    /\ script = "column_times"
    /\ proj_pos > Len(PROJECTS)
    /\ pc' = IF all_rows # << >> THEN "exported" ELSE "nothing_to_export"
    /\ UNCHANGED << runFrame, projectMaps, tasks, all_rows, data_rows, proj_pos, project >>

RECURSIVE RowsOfItems(_, _)
\* the rows of the items 1..n of a project, in the order of the ids
RowsOfItems(proj, n) ==
    IF n = 0 THEN << >> ELSE RowsOfItems(proj, n - 1) \o ItemRows(proj, n)

\* report_pmo_ecom.py 383-391: process_project under try / except Exception
ProcessProjectPmoEcom ==
    /\ pc = "projects"
    /\ script = "report_pmo_ecom"
    /\ proj_pos <= Len(PROJECTS)
    /\ all_rows' = IF listing_ok[proj_pos]
                   THEN all_rows \o RowsOfItems(project, item_count[proj_pos])
                   ELSE all_rows
    /\ NextProject
    /\ UNCHANGED << runFrame, projectMaps, tasks, data_rows, pc >>

\* report_pmo_ecom.py 393-402: sys.exit(1) without any project, else export
ExportPmoEcom ==
    /\ pc = "projects"
    /\ script = "report_pmo_ecom"
    /\ proj_pos > Len(PROJECTS)
    /\ pc' = IF all_rows = << >> THEN "exit_1" ELSE "exported"
    /\ UNCHANGED << runFrame, projectMaps, tasks, all_rows, data_rows, proj_pos, project >>

----------------------------------------------------------------------------
(* SpecRun: each script over the projects; every listing succeeds or fails,
   every project has up to MaxItems work items, every fetch ends in any way.
   The executor runs every submitted task and the loops go on, hence the
   weak fairness of the steps. *)

InitRun ==
    /\ script \in { "blocked_paused", "column_times", "report_pmo_ecom" }
    /\ pc = "projects"
    /\ proj_pos = 1
    /\ listing_ok \in [1..Len(PROJECTS) -> BOOLEAN]
    /\ item_count \in [1..Len(PROJECTS) -> 0..MaxItems]
    /\ tasks = << >>
    /\ all_rows = << >>
    /\ closed_resp \in IF script = "blocked_paused"
                        THEN { [p \in 1..Len(PROJECTS) |-> [b \in 1..MaxBatches |-> k]] :
                                 k \in { "dates", "short" } }
                        ELSE { DefaultAnswers }
    /\ ItemInputs(<< TeamA, TeamB >>, DefaultValues, { << >> }, { NoBoards })

NextRun ==
    \/ BeginProjectBlockedPaused
    \/ SubmitTask
    \/ \E i \in 1..MaxItems : StartTask(i)
    \/ \E i \in 1..MaxItems : RunTask(i)
    \/ \E i \in 1..MaxItems : Collect(i)
    \/ EndPool
    \/ ExportBlockedPaused
    \/ BeginProjectColumnTimes
    \/ ItemColumnTimes
    \/ EndItems
    \/ ExportColumnTimes
    \/ ProcessProjectPmoEcom
    \/ ExportPmoEcom

SpecRun == InitRun /\ [][NextRun]_vars /\ WF_vars(NextRun)

----------------------------------------------------------------------------
(* Spec: tag transitions of one work item; every revision takes any of the
   tag strings and is dated before or inside the window; revisions arrive in
   revision order *)

TagTimelines ==
    UNION { { [k \in 1..n |-> Rev(k, d[k], t[k], "Active", PathProjA)] :
                d \in [1..n -> { DayBefore, DayAfter }], t \in [1..n -> TagStrings] } :
            n \in 0..MaxRevs }

Init == InitWith("blocked_paused", << TeamA, TeamB >>, DefaultValues, TagTimelines)

Next ==
    \/ LoadTeamsBlockedPaused
    \/ FetchFails
    \/ BeginProcess
    \/ SkipRevision
    \/ SetBaseline
    \/ EmitTransitions
    \/ ReturnRows

Spec == Init /\ [][Next]_vars

----------------------------------------------------------------------------
(* SpecWindow: every revision takes any of the dates (missing, before the
   window, at its start, a fraction of a second after its start, after it) *)

WindowTimelines ==
    UNION { { [k \in 1..n |-> Rev(k, d[k], t[k], "Active", PathProjA)] :
                d \in [1..n -> Dates], t \in [1..n -> { TagsNone, TagsAPaused }] } :
            n \in 0..MaxRevs }

InitWindow ==
    InitWith("blocked_paused", << TeamA, TeamB >>, DefaultValues, WindowTimelines)

SpecWindow == InitWindow /\ [][Next]_vars

----------------------------------------------------------------------------
(* SpecOrder: up to four revisions inside the window, one hour apart, with the
   tag sets {}, {BLOCKED_A}, {BLOCKED_A, PAUSED}; the fetch returns them in
   any order, possibly with one revision from before the window *)

ScenarioTags == << TagsNone, TagsA, TagsAPaused, TagsNone >>

OrderTimelines ==
    UNION { { [j \in 1..n |-> Rev(p[j], HourDate(p[j] - 1), t[p[j]], "Active",
                                  PathProjA)] \o old :
                p \in Orderings(1..n),
                t \in [1..n -> SeqToSet(ScenarioTags)],
                old \in OldHistory } :
            n \in 0..Len(ScenarioTags) }

InitOrder ==
    InitWith("blocked_paused", << TeamA, TeamB >>, DefaultValues, OrderTimelines)

SpecOrder == InitOrder /\ [][Next]_vars

----------------------------------------------------------------------------
(* SpecArea: revisions in any fetch order, each with its own AreaPath and
   State; PAUSED is set by every even revision and cleared by every odd one *)

AreaChoices == { EmptyStr, PathProjA, PathProjB }
AlternatingTags(n) == IF n % 2 = 0 THEN PAUSED ELSE TagsNone

AreaTimelines ==
    UNION { { [j \in 1..n |-> Rev(p[j], AtStart, AlternatingTags(p[j]),
                                  StateNames[p[j]], a[p[j]])] \o old :
                p \in Orderings(1..n),
                a \in [1..n -> AreaChoices],
                old \in OldHistory } :
            n \in 0..MaxRevs }

InitArea ==
    InitWith("blocked_paused", << TeamA, TeamB >>, DefaultValues, AreaTimelines)

SpecArea == InitArea /\ [][Next]_vars

----------------------------------------------------------------------------
(* SpecTwice: process_revisions runs twice over the same fetched revisions *)

TwiceTimelines ==
    UNION { { [k \in 1..n |-> Rev(k, AtStart, t[k], "Active", PathProjA)] \o old :
                t \in [1..n -> TagStrings], old \in OldHistory } :
            n \in 0..MaxRevs }

InitTwice ==
    InitWith("blocked_paused", << TeamA, TeamB >>, DefaultValues, TwiceTimelines)

\* both runs are given the same revisions, so the fetch fails in neither
NextTwice ==
    \/ LoadTeamsBlockedPaused
    \/ BeginProcess
    \/ SkipRevision
    \/ SetBaseline
    \/ EmitTransitions
    \/ ReturnRows
    \/ Rerun

SpecTwice == InitTwice /\ [][NextTwice]_vars

----------------------------------------------------------------------------
(* SpecResolve: one work item whose area path is any path of up to MaxDepth
   segments (or empty), under any team list and any declaration of that path
   by the teams, in each script *)

Scripts == { "blocked_paused", "column_times", "issues_base", "report_status" }

AreaPaths ==
    { EmptyStr } \cup
    UNION { { Path(segs) : segs \in [1..d -> Segments] } : d \in 1..MaxDepth }

TeamLists == { << >>, << TeamA >>, << TeamB >>, << TeamA, TeamB >>, << TeamB, TeamA >> }

\* what one team declares: nothing, the path, the path twice, or another
\* path and the path with a leading blank
ValueLists(path) ==
    { << >>, << path >>, << path, path >>, << OtherPath, << " " >> \o path >> }

TypeFor(scr) ==
    CASE scr = "issues_base" -> "Issue"
      [] scr = "report_status" -> "Epic"
      [] OTHER -> "User Story"

ItemRev(scr, n, date, tags, path) ==
    [ rev |-> n, fields |-> Fields(date, tags, "Active", path, TypeFor(scr)) ]

\* three revisions of the item: one before the window, the baseline, and one
\* that sets PAUSED
ItemTimeline(scr, path) ==
    << ItemRev(scr, 1, DayBefore, TagsNone, path),
       ItemRev(scr, 2, AtStart, TagsNone, path),
       ItemRev(scr, 3, DayAfter, PAUSED, path) >>

InitResolve ==
    \E scr \in Scripts, path \in AreaPaths, teams \in TeamLists :
        \E values \in { v \in [Teams -> ValueLists(path)] :
                          \A t \in Teams \ SeqToSet(teams) : v[t] = << >> } :
            InitWith(scr, teams, values, { ItemTimeline(scr, path) })

NextResolve ==
    \/ Next
    \/ LoadTeamsFixedIndex
    \/ ResolveItemColumnTimes
    \/ ResolveItemFields

SpecResolve == InitResolve /\ [][NextResolve]_vars

----------------------------------------------------------------------------
(* SpecDwell: the column dwell of one work item of workitems_column_times.py;
   every revision may lack its column or its changed date, sits in one of two
   columns with either done flag, and the revisions arrive in revision order
   or reversed; the item is open, closed before its revisions, or closed after
   them *)

ColDev == << "D","e","v" >>
ColQA == << "Q","A" >>
BoardStories == << "S","t","o","r","i","e","s" >>

\* team A's Stories board: Dev is a split column, QA is not
DefaultBoards ==
    [t \in Teams |->
        IF t = TeamA
        THEN << Board(BoardStories, << Column(ColDev, TRUE), Column(ColQA, FALSE) >>) >>
        ELSE << >>]

DwellRev(n, date, col, done, closed, path) ==
    [ rev |-> n,
      fields |-> [Fields(date, TagsNone, "Closed", path, "User Story")
                     EXCEPT !.BoardColumn = col,
                            !.BoardColumnDone = done,
                            !.ClosedDate = closed] ]

ColumnStates == { << EmptyStr, FALSE >>, << ColDev, FALSE >>, << ColDev, TRUE >>,
                  << ColQA, FALSE >> }

ClosedBefore == << "2", "T", "0", "Z" >>
ClosedAfter == << "3", "T", "1", ".", "5", "Z" >>
ClosingDates == { EmptyStr, ClosedBefore, ClosedAfter }

DwellTimelines ==
    UNION { { [k \in 1..n |-> DwellRev(k, IF dated[k] THEN HourDate(k) ELSE EmptyStr,
                                       cs[k][1], cs[k][2], closed, PathProjA)] :
                dated \in [1..n -> BOOLEAN], cs \in [1..n -> ColumnStates],
                closed \in ClosingDates } :
            n \in 0..MaxRevs }

InitDwell ==
    InitWithBoards("column_times", << TeamA, TeamB >>, DefaultValues,
                   DwellTimelines \cup { Reversed(t) : t \in DwellTimelines },
                   { DefaultBoards })

NextDwell ==
    \/ LoadTeamsFixedIndex
    \/ ResolveItemColumnTimes
    \/ DwellSkip
    \/ DwellFirst
    \/ DwellSame
    \/ DwellChange
    \/ FinalSegment

SpecDwell == InitDwell /\ [][NextDwell]_vars

----------------------------------------------------------------------------
(* Vocabulary of the properties *)

\* process_revisions has fetched and sorted a non-empty history
Walking == pc \in { "loop", "returned" } /\ revs # << >>
Returned == pc = "returned" /\ revs # << >>

TagsAt(k) == ParseTags(revs[k].fields.Tags)
DateAt(k) == revs[k].fields.ChangedDate

\* the concrete tag an output row is about
RowTag(row) == IF row.Keyword = BLOCKED THEN row.Tag ELSE row.Keyword

RowsOfRevision(n) == { m \in 1..Len(rows) : rows[m].Revision = n }

CountEvents(n, tag, action) ==
    Cardinality({ m \in RowsOfRevision(n) :
                    RowTag(rows[m]) = tag /\ rows[m].Action = action })

\* the point in time a timestamp "<day>T<hour>[.<fraction>]Z" denotes, in
\* tenths of an hour since day 0
PointInTime(d) ==
    DigitValue(d[1]) * 240 + DigitValue(d[3]) * 10
    + (IF d[4] = "." THEN DigitValue(d[5]) ELSE 0)

\* positions of the timeline that the loop does not skip
Processed == { k \in 1..Len(revs) : ~OutsideWindow(DateAt(k), start_iso) }
IsBaseline(k) == k \in Processed /\ \A j \in Processed : j >= k
PreviousProcessed(k) == CHOOSE j \in Processed : j < k /\ \A h \in Processed : h < k => h <= j

----------------------------------------------------------------------------
(* C1: the tracked previous tag set is updated after every revision, also
   after a revision dated before the window start, so that the first
   revision inside the window is diffed against the revision just before it;
   a BLOCKED tag carried by the last revision before the window and absent
   from the first one inside it yields a Removed event at that revision. *)
C1_BaselineFollowsEveryRevision ==
    /\ (pc = "loop" /\ idx > 1 /\ DateAt(idx - 1) # EmptyStr)
          => prev_tags = Some(TagsAt(idx - 1))
    /\ Returned =>
          \A k \in 2..Len(revs) :
             ( /\ DateAt(k - 1) # EmptyStr
               /\ StrLess(DateAt(k - 1), start_iso)
               /\ k \in Processed
               /\ BLOCKED_A \in TagsAt(k - 1) \ TagsAt(k) )
             => CountEvents(revs[k].rev, BLOCKED_A, "Removed") = 1

----------------------------------------------------------------------------
(* C2: for every processed revision after the baseline, with P the tag set
   of the previously processed revision and C its own: one Added event per
   BLOCKED tag in C \ P, one Removed event per BLOCKED tag in P \ C, at most
   one PAUSED event (Added if PAUSED entered, Removed if it left), and no
   other event. *)
C2_EventsAreTheTagDifferences ==
    Returned =>
        \A k \in Processed :
            ~IsBaseline(k) =>
                LET P == ParseTags(revs[PreviousProcessed(k)].fields.Tags)
                    C == TagsAt(k)
                    n == revs[k].rev
                    added   == { t \in C \ P : StartsWith(t, BLOCKED) }
                    removed == { t \in P \ C : StartsWith(t, BLOCKED) }
                    paused  == IF PAUSED \in C \ P THEN { "Added" }
                               ELSE IF PAUSED \in P \ C THEN { "Removed" } ELSE {}
                IN  /\ \A t \in added : CountEvents(n, t, "Added") = 1
                    /\ \A t \in removed : CountEvents(n, t, "Removed") = 1
                    /\ \A a \in paused : CountEvents(n, PAUSED, a) = 1
                    /\ Cardinality(RowsOfRevision(n))
                         = Cardinality(added) + Cardinality(removed) + Cardinality(paused)

\* one revision removes BLOCKED_A, adds BLOCKED_B and adds PAUSED, and one
\* changes only a tag outside the groups
C2_Witness ==
    /\ Returned
    /\ \E k \in Processed :
          /\ CountEvents(revs[k].rev, BLOCKED_A, "Removed") = 1
          /\ CountEvents(revs[k].rev, BLOCKED_B, "Added") = 1
          /\ CountEvents(revs[k].rev, PAUSED, "Added") = 1
    /\ \E k \in Processed :
          /\ ~IsBaseline(k)
          /\ TagsAt(k) # ParseTags(revs[PreviousProcessed(k)].fields.Tags)
          /\ RowsOfRevision(revs[k].rev) = {}

----------------------------------------------------------------------------
(* C4: the first revision processed is the baseline and emits nothing; a
   timeline of a single revision yields no event; every event belongs to a
   revision of the timeline other than its first one. *)
C4_BaselineEmitsNothing ==
    Walking =>
        /\ \A m \in 1..Len(rows) :
              \E k \in 2..Len(revs) :
                 /\ revs[k].rev = rows[m].Revision
                 /\ k \in Processed
                 /\ ~IsBaseline(k)
        /\ Len(revs) = 1 => rows = << >>

\* the baseline carries BLOCKED tags, and a later revision emitted events
C4_Witness ==
    /\ Returned
    /\ rows # << >>
    /\ IsBaseline(1)
    /\ BlockedOf(TagsAt(1)) # {}

----------------------------------------------------------------------------
(* C3: the events of a work item come in ascending revision order, and among
   the events of one revision the BLOCKED ones precede the PAUSED one; the
   revisions {}, {BLOCKED_A}, {BLOCKED_A, PAUSED}, {} at t = 0..3 give exactly
   (t1, BLOCKED_A, Added), (t2, PAUSED, Added), (t3, BLOCKED_A, Removed),
   (t3, PAUSED, Removed). *)
EventOf(row) == << row.ChangedDate, RowTag(row), row.Action >>

\* the timeline without the revision from before the window
InsideWindow == SelectSeq(revs, LAMBDA r : r.rev # OldRev.rev)

ScenarioEvents ==
    << << HourDate(1), BLOCKED_A, "Added" >>,
       << HourDate(2), PAUSED, "Added" >>,
       << HourDate(3), BLOCKED_A, "Removed" >>,
       << HourDate(3), PAUSED, "Removed" >> >>

C3_EventsInRevisionAndGroupOrder ==
    Returned =>
        /\ \A m, n \in 1..Len(rows) :
              m < n =>
                 /\ rows[m].Revision <= rows[n].Revision
                 /\ (rows[m].Revision = rows[n].Revision /\ rows[m].Keyword = PAUSED)
                       => rows[n].Keyword = PAUSED
        /\ [k \in 1..Len(InsideWindow) |-> InsideWindow[k].fields.Tags] = ScenarioTags
              => [m \in 1..Len(rows) |-> EventOf(rows[m])] = ScenarioEvents

\* the scenario's four revisions, fetched in another order than by revision
C3_Witness ==
    /\ Returned
    /\ [k \in 1..Len(InsideWindow) |-> InsideWindow[k].fields.Tags] = ScenarioTags
    /\ fetched # revs
    /\ Len(rows) = 4

----------------------------------------------------------------------------
(* C5: every emitted event is dated at or after the window start; no
   revision dated before the window start (or undated) appears in a row. *)
C5_RowsAreInsideTheWindow ==
    Walking =>
        /\ \A m \in 1..Len(rows) :
              /\ rows[m].ChangedDate # EmptyStr
              /\ PointInTime(rows[m].ChangedDate) >= PointInTime(start_iso)
        /\ \A k \in 1..Len(revs) :
              (DateAt(k) = EmptyStr \/ PointInTime(DateAt(k)) < PointInTime(start_iso))
                 => RowsOfRevision(revs[k].rev) = {}

\* a revision from before the window changes the tags and is followed by
\* revisions inside the window that emit events
C5_Witness ==
    /\ Returned
    /\ rows # << >>
    /\ \E k \in 2..Len(revs) :
          /\ DateAt(k) = DayBefore
          /\ TagsAt(k) # TagsAt(k - 1)
          /\ \E m \in 1..Len(rows) : rows[m].Revision > revs[k].rev

----------------------------------------------------------------------------
(* C6: every event carries, as Team and as ActualTeam, the team resolved from
   the AreaPath of the final (highest-numbered) revision, never from the
   transition revision's own AreaPath, while its AreaPath and State are those
   of the transition revision; also when the final AreaPath is empty. *)
TeamOf(path) == ResolveReversed(path, project, prefs_map, all_teams)
FinalFields == revs[Len(revs)].fields
OwnFields(row) == revs[CHOOSE k \in 1..Len(revs) : revs[k].rev = row.Revision].fields

C6_TeamFromFinalRevision ==
    Walking =>
        \A m \in 1..Len(rows) :
            /\ rows[m].Team = TeamOf(FinalFields.AreaPath)
            /\ rows[m].ActualTeam = TeamOf(FinalFields.AreaPath)
            /\ rows[m].AreaPath = OwnFields(rows[m]).AreaPath
            /\ rows[m].State = OwnFields(rows[m]).State

(* C6 as amended: ActualTeam is resolved from the final revision's AreaPath;
   Team is resolved from the final revision's AreaPath when that is not
   empty and from the transition revision's own AreaPath when it is empty;
   AreaPath and State are those of the transition revision. *)
C6_TeamFromFinalRevisionUnlessEmpty ==
    Walking =>
        \A m \in 1..Len(rows) :
            /\ rows[m].Team = TeamOf(IF FinalFields.AreaPath # EmptyStr
                                     THEN FinalFields.AreaPath
                                     ELSE OwnFields(rows[m]).AreaPath)
            /\ rows[m].ActualTeam = TeamOf(FinalFields.AreaPath)
            /\ rows[m].ActualAreaPath = FinalFields.AreaPath
            /\ rows[m].AreaPath = OwnFields(rows[m]).AreaPath
            /\ rows[m].State = OwnFields(rows[m]).State

\* an event of a revision whose AreaPath and State differ from the final
\* revision's, the final AreaPath resolving to another team than its own
C6_Witness ==
    /\ Returned
    /\ fetched # revs
    /\ \E m \in 1..Len(rows) :
          /\ FinalFields.AreaPath # EmptyStr
          /\ rows[m].AreaPath # FinalFields.AreaPath
          /\ rows[m].State # FinalFields.State
          /\ rows[m].Team # TeamOf(rows[m].AreaPath)
    /\ FinalFields.AreaPath = PathProjB

----------------------------------------------------------------------------
(* C7: running the extraction twice over the same revisions, window start,
   preference map, team set and closed-date cache gives the identical
   sequence of events, also when one revision adds or removes several
   BLOCKED tags at once. *)
C7_SecondRunRepeatsTheFirst ==
    (pc = "returned" /\ run = 2) => rows = rows_first

----------------------------------------------------------------------------
(* Team resolution at the call sites: what was resolved, and from what *)

\* blocked_paused.py has resolved ActualTeam (and Team, row by row) from the
\* final revision's area path
ResolvedByReversedScan == script = "blocked_paused" /\ Walking
\* a fixed-index script has resolved team_name from area
ResolvedByFixedIndex == pc \in { "dwell", "row" }

SegmentsOf(path) == Split(path, BACKSLASH)
MatchingSegments(path) ==
    { k \in 1..Len(SegmentsOf(path)) : SegmentsOf(path)[k] \in all_teams }

UniqueEntry(path) == path \in DOMAIN prefs_map /\ Len(prefs_map[path]) = 1
AmbiguousEntry(path) ==
    path \in DOMAIN prefs_map /\ Cardinality(SeqToSet(prefs_map[path])) >= 2

\* the segment scans alone, followed by the project fallback
RightmostMatchOrProject(path) ==
    IF MatchingSegments(path) = {} THEN project
    ELSE SegmentsOf(path)[CHOOSE k \in MatchingSegments(path) :
                             \A j \in MatchingSegments(path) : j <= k]
FixedIndexMatchOrProject(path) ==
    IF MatchingSegments(path) \cap 1..3 = {} THEN project
    ELSE SegmentsOf(path)[CHOOSE k \in MatchingSegments(path) \cap 1..3 :
                             \A j \in MatchingSegments(path) \cap 1..3 : j <= k]

----------------------------------------------------------------------------
----------------------------------------------------------------------------
(* C9: at every call site, an area path that the preference map maps to two
   or more teams is treated as no match: the result is that of the segment
   scan, then the project fallback, never a team picked from the ambiguous
   list by position. *)
C9_AmbiguousEntryFallsThrough ==
    /\ (ResolvedByReversedScan /\ AmbiguousEntry(FinalFields.AreaPath)) =>
          /\ actual_team = RightmostMatchOrProject(FinalFields.AreaPath)
          /\ \A m \in 1..Len(rows) :
                rows[m].Team = RightmostMatchOrProject(FinalFields.AreaPath)
    /\ (ResolvedByFixedIndex /\ AmbiguousEntry(area)) =>
          team_name = FixedIndexMatchOrProject(area)

----------------------------------------------------------------------------
(* C10: at every call site, an area path (the empty one included) that is no
   key of the preference map and has no segment equal to a known team name
   resolves to the project. *)
NoMatch(path) == path \notin DOMAIN prefs_map /\ MatchingSegments(path) = {}

C10_NoMatchGivesProject ==
    /\ (ResolvedByReversedScan /\ NoMatch(FinalFields.AreaPath)) =>
          /\ actual_team = project
          /\ \A m \in 1..Len(rows) : rows[m].Team = project
    /\ (ResolvedByFixedIndex /\ NoMatch(area)) =>
          team_name = project

\* the empty area path, with both teams known, resolved to the project by the
\* reversed scan of an event
C10_Witness ==
    /\ ResolvedByReversedScan
    /\ FinalFields.AreaPath = EmptyStr
    /\ all_teams = Teams
    /\ prefs_map # EmptyMap
    /\ rows # << >>
    /\ rows[1].Team = project

----------------------------------------------------------------------------
(* SpecDeep: one work item whose area path has MaxDepth + 1 segments, in each
   script; the teams declare nothing, or both declare the path *)

DeepPaths == { Path(segs) : segs \in [1..(MaxDepth + 1) -> Segments] }

InitDeep ==
    \E scr \in Scripts, path \in DeepPaths,
       teams \in { << TeamA >>, << TeamA, TeamB >> } :
        \E declared \in { << >>, << path >> } :
            InitWith(scr, teams,
                     [t \in Teams |-> IF t \in SeqToSet(teams) THEN declared ELSE << >>],
                     { ItemTimeline(scr, path) })

SpecDeep == InitDeep /\ [][NextResolve]_vars

----------------------------------------------------------------------------
(* C11: at every call site, when the area path has no unique exact match and
   some segment of it equals a known team name, the result is the matching
   segment nearest to the leaf, whatever the depth of the path: [Proj, TeamA,
   Sub] gives TeamA, and of two team segments the one nearer the leaf wins. *)
C11_LeafmostTeamSegmentWins ==
    /\ ( /\ ResolvedByReversedScan
         /\ ~UniqueEntry(FinalFields.AreaPath)
         /\ MatchingSegments(FinalFields.AreaPath) # {} ) =>
          /\ actual_team = RightmostMatchOrProject(FinalFields.AreaPath)
          /\ \A m \in 1..Len(rows) :
                rows[m].Team = RightmostMatchOrProject(FinalFields.AreaPath)
    /\ ( /\ ResolvedByFixedIndex
         /\ ~UniqueEntry(area)
         /\ MatchingSegments(area) # {} ) =>
          team_name = RightmostMatchOrProject(area)

----------------------------------------------------------------------------
(* Vocabulary of the dwell properties *)

\* the point in time of a timestamp "<day>T<hour>...", in hours since day 0
HoursOf(cd) == DigitValue(cd[1]) * 24 + DigitValue(cd[3])
\* the point in time a row's Start or End "<day> <hh>" denotes
RowTime(str) == DigitValue(str[1]) * 24 + DigitValue(str[3]) * 10 + DigitValue(str[4])
\* the report shows every timestamp three hours earlier (UTC-3)
ReportTime(cd) == HoursOf(cd) - 3

HasColumnAndDate(rev) == rev.fields.BoardColumn # EmptyStr /\ rev.fields.ChangedDate # EmptyStr
ValidPositions == { k \in 1..Len(revs) : HasColumnAndDate(revs[k]) }
InDwellLoop == script = "column_times" /\ pc = "dwell" /\ idx <= Len(revs)
DwellDone == script = "column_times" /\ pc = "item_done"
ClosingDate == revs[Len(revs)].fields.ClosedDate

----------------------------------------------------------------------------
(* C12: in the dwell loop, a revision without board column or without changed
   date leaves (currentColumn, entryTimestamp, entryDoneFlag) and the rows
   unchanged; the first valid revision only initialises the state; a later
   valid revision emits exactly one interval iff its column or its done flag
   differs from the state, with Column = the column left, Start =
   entryTimestamp and End = the revision's timestamp, and resets the state to
   the new column, timestamp and done flag; otherwise it emits nothing and
   leaves the state unchanged. *)
C12_StepOfTheDwellLoop ==
    [][ InDwellLoop =>
          LET rev  == revs[idx]
              col  == rev.fields.BoardColumn
              done == rev.fields.BoardColumnDone
              reset == /\ curr_col' = Some(col)
                       /\ entry_dt' = Some(ReportTime(rev.fields.ChangedDate))
                       /\ entry_done' = Some(done)
          IN  IF ~HasColumnAndDate(rev)
              THEN UNCHANGED << curr_col, entry_dt, entry_done, data_rows >>
              ELSE IF curr_col = None
              THEN reset /\ data_rows' = data_rows
              ELSE IF col # curr_col[1] \/ done # entry_done[1]
              THEN /\ Len(data_rows') = Len(data_rows) + 1
                   /\ SubSeq(data_rows', 1, Len(data_rows)) = data_rows
                   /\ data_rows'[Len(data_rows')].Column = curr_col[1]
                   /\ RowTime(data_rows'[Len(data_rows')].Start) = entry_dt[1]
                   /\ RowTime(data_rows'[Len(data_rows')].End)
                         = ReportTime(rev.fields.ChangedDate)
                   /\ reset
              ELSE UNCHANGED << curr_col, entry_dt, entry_done, data_rows >>
      ]_vars

\* the loop skipped a revision while a dwell was open, then closed an
\* interval on a change of the done flag alone
C12_Witness ==
    /\ script = "column_times"
    /\ pc = "dwell"
    /\ idx = 4
    /\ ValidPositions = { 1, 3 }
    /\ revs[1].fields.BoardColumn = revs[3].fields.BoardColumn
    /\ Len(data_rows) = 1
    /\ curr_col = Some(ColDev)
    /\ entry_done = Some(TRUE)

----------------------------------------------------------------------------
(* C13: after the last revision of a work item, exactly one final interval
   is emitted iff the item has a closing date and a dwell is open; it has
   Column = the current column, Start = entryTimestamp and End = the closing
   date.  Without a closing date nothing is emitted for the trailing dwell. *)
C13_FinalIntervalUpToClosingDate ==
    [][ (script = "column_times" /\ pc = "dwell" /\ idx > Len(revs)) =>
          IF ClosingDate # EmptyStr /\ curr_col # None
          THEN /\ Len(data_rows') = Len(data_rows) + 1
               /\ SubSeq(data_rows', 1, Len(data_rows)) = data_rows
               /\ data_rows'[Len(data_rows')].Column = curr_col[1]
               /\ RowTime(data_rows'[Len(data_rows')].Start) = entry_dt[1]
               /\ RowTime(data_rows'[Len(data_rows')].End) = ReportTime(ClosingDate)
          ELSE data_rows' = data_rows
      ]_vars

\* a closed item whose loop emitted one interval and whose final interval ran
\* from the last change to the closing date
C13_Witness ==
    /\ DwellDone
    /\ ClosingDate = ClosedAfter
    /\ Len(data_rows) = 2
    /\ data_rows[2].Column = curr_col[1]
    /\ data_rows[2].Start = data_rows[1].End
    /\ RowTime(data_rows[2].End) = ReportTime(ClosedAfter)

----------------------------------------------------------------------------
(* C14: for a work item that was never closed and has N valid revisions, the
   extraction emits N-1 bounded intervals and none for the trailing open
   dwell. *)
PreviousValid(k) ==
    CHOOSE j \in ValidPositions : j < k /\ \A h \in ValidPositions : h < k => h <= j
\* valid revisions whose column or done flag differs from the valid revision
\* before them
ChangePositions ==
    { k \in ValidPositions :
        /\ \E j \in ValidPositions : j < k
        /\ \/ revs[k].fields.BoardColumn # revs[PreviousValid(k)].fields.BoardColumn
           \/ revs[k].fields.BoardColumnDone # revs[PreviousValid(k)].fields.BoardColumnDone }

C14_OpenItemEmitsOnePerValidRevisionButOne ==
    (DwellDone /\ ClosingDate = EmptyStr /\ ValidPositions # {}) =>
        Len(data_rows) = Cardinality(ValidPositions) - 1

(* C14 as amended: for a work item that was never closed, the extraction
   emits one bounded interval per valid revision whose column or done flag
   differs from the valid revision before it (at most N-1 for N valid
   revisions), and none for the trailing open dwell. *)
C14_OpenItemEmitsOnePerChange ==
    (DwellDone /\ ClosingDate = EmptyStr) =>
        /\ Len(data_rows) = Cardinality(ChangePositions)
        /\ ValidPositions # {} => Len(data_rows) <= Cardinality(ValidPositions) - 1
        /\ \A m \in 1..Len(data_rows) :
              \E k \in ChangePositions :
                 RowTime(data_rows[m].End) = ReportTime(revs[k].fields.ChangedDate)

\* an open item with three valid revisions, of which only one changed the
\* column or the done flag
C14_Witness ==
    /\ DwellDone
    /\ ClosingDate = EmptyStr
    /\ Cardinality(ValidPositions) = 3
    /\ Len(data_rows) = 1
    /\ curr_col # None

----------------------------------------------------------------------------
(* C15: every emitted interval has End >= Start, for every revision sequence
   and closing date, the final interval bounded by the closing date included,
   also when revisions are dated later than the closing date. *)
C15_EndNotBeforeStart ==
    script = "column_times" =>
        \A m \in 1..Len(data_rows) :
            RowTime(data_rows[m].End) >= RowTime(data_rows[m].Start)

----------------------------------------------------------------------------
(* C16: for a closed work item with at least one valid revision, the sum of
   End - Start over all its intervals, the final one included, equals the
   closing date minus the timestamp of the first valid revision, however many
   revisions are skipped and however many changes occur. *)
RECURSIVE SumOfDurations(_)
SumOfDurations(rs) ==
    IF rs = << >> THEN 0
    ELSE RowTime(Head(rs).End) - RowTime(Head(rs).Start) + SumOfDurations(Tail(rs))

FirstValid == CHOOSE k \in ValidPositions : \A j \in ValidPositions : k <= j

C16_DurationsSumToClosingMinusFirst ==
    (DwellDone /\ ClosingDate # EmptyStr /\ ValidPositions # {}) =>
        SumOfDurations(data_rows)
            = HoursOf(ClosingDate) - HoursOf(revs[FirstValid].fields.ChangedDate)

\* a closed item with a skipped revision between two valid ones, a change of
\* column and the final interval
C16_Witness ==
    /\ DwellDone
    /\ ClosingDate = ClosedAfter
    /\ ValidPositions = { 1, 3 }
    /\ Len(data_rows) = 2
    /\ data_rows[1].Column # data_rows[2].Column
    /\ SumOfDurations(data_rows) > 0

----------------------------------------------------------------------------
(* SpecSplit: the dwell of one user story of team A under several board
   configurations: no board, a Stories board, or an untracked board followed
   by a Stories board and a Features board; one column carries the name of
   the board *)

ColStories == << "S","t","o","r","i","e","s" >>

StoriesColumns ==
    << Column(ColDev, TRUE), Column(ColQA, FALSE), Column(ColStories, FALSE) >>

BoardChoices ==
    { NoBoards,
      [t \in Teams |-> IF t = TeamA THEN << Board(BoardStories, StoriesColumns) >>
                       ELSE << >>],
      [t \in Teams |->
          IF t = TeamA
          THEN << Board(<< "B","u","g","s" >>, << Column(ColQA, TRUE) >>),
                  Board(BoardStories, StoriesColumns),
                  Board(<< "F","e","a","t","u","r","e","s" >>, << Column(ColQA, TRUE) >>) >>
          ELSE << >>] }

SplitColumnStates ==
    { << EmptyStr, FALSE >>, << ColDev, FALSE >>, << ColDev, TRUE >>,
      << ColQA, FALSE >>, << ColStories, FALSE >> }

SplitTimelines ==
    UNION { { [k \in 1..n |-> DwellRev(k, HourDate(k), cs[k][1], cs[k][2], closed,
                                       PathProjA)] :
                cs \in [1..n -> SplitColumnStates],
                closed \in { EmptyStr, ClosedAfter } } :
            n \in 0..MaxRevs }

InitSplit ==
    InitWithBoards("column_times", << TeamA, TeamB >>, DefaultValues,
                   SplitTimelines, BoardChoices)

SpecSplit == InitSplit /\ [][NextDwell]_vars

----------------------------------------------------------------------------
(* C17: with the split-column configuration built from the boards, an
   interval spent in a column configured as split for the item's team is
   reported with SplitState "Done" when the done flag held at entry is true
   and "Doing" when it is false; an interval in a column that is not split is
   reported with ""; SplitState is always one of "", "Doing", "Done". *)

\* the column is configured as split on the item's board for the team
ConfiguredSplit(team, column) ==
    \E k \in 1..Len(boards[team]) :
        /\ boards[team][k].name = BoardStories
        /\ \E c \in 1..Len(boards[team][k].columns) :
              /\ boards[team][k].columns[c].name = column
              /\ boards[team][k].columns[c].isSplit

\* the done flag of the revision at which the interval of the row was entered
DoneAtEntry(row) ==
    LET k == CHOOSE j \in ValidPositions :
                 ReportTime(revs[j].fields.ChangedDate) = RowTime(row.Start)
    IN  revs[k].fields.BoardColumnDone

C17_SplitStateFollowsTheDoneFlag ==
    script = "column_times" =>
        \A m \in 1..Len(data_rows) :
            LET row == data_rows[m]
            IN  /\ row.SplitState \in { "", "Doing", "Done" }
                /\ row.SplitState =
                      IF ConfiguredSplit(row.Team, row.Column)
                      THEN IF DoneAtEntry(row) THEN "Done" ELSE "Doing"
                      ELSE ""

----------------------------------------------------------------------------
(* SpecSort: both extractors up to the sorted timeline.  The fetch returns up
   to MaxRevs revisions in any order of their numbers, ties included; the
   timestamps do not decrease with the revision number and may differ only
   in the fraction of a second *)

SortDates == << AtStart, FractionAfterStart, DayAfter >>

\* the area path tells the positions of the fetch apart
AreaAtPosition(j) == IF j % 2 = 1 THEN PathProjA ELSE PathProjB

SortTimelines ==
    UNION { { [j \in 1..n |-> Rev(p[j], SortDates[d[p[j]]], TagsNone, "Active",
                                  AreaAtPosition(j))] :
                p \in [1..n -> 1..n],
                d \in { f \in [1..n -> 1..Len(SortDates)] :
                          \A a, b \in 1..n : a < b => f[a] <= f[b] } } :
            n \in 0..MaxRevs }

InitSort ==
    \E scr \in { "blocked_paused", "column_times" } :
        InitWith(scr, << TeamA, TeamB >>, DefaultValues, SortTimelines)

NextSort ==
    \/ LoadTeamsBlockedPaused
    \/ BeginProcess
    \/ LoadTeamsFixedIndex
    \/ ResolveItemColumnTimes

SpecSort == InitSort /\ [][NextSort]_vars

----------------------------------------------------------------------------
(* C18: before either extractor walks the history, the revisions are sorted
   ascending by revision number with a stable sort (equal numbers keep their
   fetch order), so the first and the final revision of the walk are the
   lowest- and the highest-numbered one whatever the fetch order was. *)
HistorySorted ==
    \/ script = "blocked_paused" /\ pc = "loop"
    \/ script = "column_times" /\ pc = "dwell"

WithNumber(hist, n) == SelectSeq(hist, LAMBDA r : r.rev = n)

C18_WalkIsInRevisionOrder ==
    HistorySorted =>
        /\ Len(revs) = Len(fetched)
        /\ \A i, j \in 1..Len(revs) : i < j => revs[i].rev <= revs[j].rev
        /\ \A n \in 1..Len(revs) : WithNumber(revs, n) = WithNumber(fetched, n)
        /\ \A k \in 1..Len(fetched) :
              /\ revs[1].rev <= fetched[k].rev
              /\ revs[Len(revs)].rev >= fetched[k].rev

----------------------------------------------------------------------------
(* Vocabulary of the properties of the loops *)

\* how many rows of a list belong to item i of a project
CountRowsOf(list, proj, i) ==
    Cardinality({ m \in 1..Len(list) :
                    list[m].Project = proj /\ list[m].WorkItemId = i })

InPool == script = "blocked_paused" /\ pc = "pool"
PoolDrained ==
    /\ InPool
    /\ Len(tasks) = item_count[proj_pos]
    /\ \A i \in DOMAIN tasks : tasks[i].state = "collected"
FetchFailed(i) == tasks[i].outcome \in { "status", "raise" }

----------------------------------------------------------------------------
(* C19: a failure while fetching the revisions of one work item makes that
   item contribute no row and does not abort the worker pool: whichever
   fetches fail and in whichever order the tasks complete, the pool is
   drained, and then every item whose fetch succeeded has contributed its
   rows once and every item whose fetch failed has contributed none.  In the
   item loop of the dwell script, an item answered with another status than
   200 contributes no row and the loop goes on with the next item. *)
C19_ItemsContribute ==
    /\ script = "blocked_paused" => pc # "died"
    /\ InPool =>
          \A i \in DOMAIN tasks :
              CountRowsOf(all_rows, project, i) =
                  IF tasks[i].state = "collected" /\ ~FetchFailed(i)
                  THEN Len(ItemRows(project, i)) ELSE 0
    /\ (script = "column_times" /\ pc = "items") =>
          \A i \in DOMAIN tasks :
              CountRowsOf(data_rows, project, i) =
                  IF tasks[i].state = "done" /\ tasks[i].outcome = "ok"
                  THEN Len(ItemRows(project, i)) ELSE 0

----------------------------------------------------------------------------
(* C20: in each script that loops over projects, a failure of the team or
   area listing of one project skips that project: the loop goes on with the
   next project, the rows collected from earlier projects stay as they are,
   and the script does not end before its export step. *)
C20_ListingFailureSkipsTheProject ==
    [][ ( /\ pc = "projects"
          /\ proj_pos <= Len(PROJECTS)
          /\ ~listing_ok[proj_pos] ) =>
            /\ pc' = "projects"
            /\ proj_pos' = proj_pos + 1
            /\ all_rows' = all_rows
      ]_vars

----------------------------------------------------------------------------
(* Vocabulary of the properties of the pool and of the closed-date cache *)

\* the batch request that carries the i-th id of a project
BatchOf(i) == ((i - 1) \div BATCH_SIZE) + 1
LastOfBatch(i, count) == i = Min(BatchOf(i) * BATCH_SIZE, count)
\* the server's answer to that request
AnswerFor(p, i) == closed_resp[p][BatchOf(i)]
\* the request for the i-th id was answered with the work item, or it failed
Answered(p, i) == AnswerFor(p, i) # "short" \/ ~LastOfBatch(i, item_count[p])

KeyOf(p, i) == Str(IdOf(p, i))
Lookup(p, i) == IF KeyOf(p, i) \in DOMAIN closed_date_cache
                THEN closed_date_cache[KeyOf(p, i)] ELSE EmptyStr

\* the team a path resolves to under the maps as they are now
TeamNow(path) == ResolveReversed(path, project, prefs_map, all_teams)

Unfinished(i) == tasks[i].state \in { "submitted", "running" }
HasRead(i) == tasks[i].state \in { "running", "done", "collected" }

\* the declarations of the teams, as the listing of the project returned them
Declares(team, path) ==
    \E k \in 1..Len(team_values[team]) :
        Strip(team_values[team][k]) = path /\ path # EmptyStr

----------------------------------------------------------------------------
(* C21: the preference map, the team set and the closed-date cache are fully
   populated before the first worker task of a project starts: whenever the
   pool of a project exists, the team set holds every team of the project,
   the preference map holds every declared area path with the teams that
   declared it, and the cache holds every id the server answered for.  No
   step taken while the pool exists writes to any of the three, so what a
   task has read equals what is there now; and a step of one worker changes
   nothing but that worker's own task. *)
C21_PopulatedBeforeThePool ==
    InPool =>
        /\ all_teams = SeqToSet(teams_resp)
        /\ \A t \in all_teams : \A k \in 1..Len(team_values[t]) :
              Strip(team_values[t][k]) # EmptyStr =>
                 /\ Strip(team_values[t][k]) \in DOMAIN prefs_map
                 /\ t \in SeqToSet(prefs_map[Strip(team_values[t][k])])
        /\ \A path \in DOMAIN prefs_map : \A k \in 1..Len(prefs_map[path]) :
              Declares(prefs_map[path][k], path)
        /\ \A i \in 1..item_count[proj_pos] :
              Answered(proj_pos, i) => KeyOf(proj_pos, i) \in DOMAIN closed_date_cache
        /\ \A i \in DOMAIN tasks :
              /\ HasRead(i) => tasks[i].closed = Lookup(proj_pos, i)
              /\ \A m \in 1..Len(tasks[i].result) :
                    /\ tasks[i].result[m].ClosedDate = Lookup(proj_pos, i)
                    /\ tasks[i].result[m].Team = TeamNow(ItemArea(i))

C21_NoWriteWhileTasksRun ==
    (InPool /\ \E i \in DOMAIN tasks : Unfinished(i)) =>
        UNCHANGED << prefs_map, all_teams, closed_date_cache >>

C21_WorkerStepIsPrivate ==
    (InPool /\ DOMAIN tasks' = DOMAIN tasks) =>
        \A i \in DOMAIN tasks :
            (Unfinished(i) /\ tasks'[i] # tasks[i]) =>
                /\ \A j \in DOMAIN tasks \ { i } : tasks'[j] = tasks[j]
                /\ UNCHANGED << all_rows, prefs_map, all_teams, closed_date_cache,
                                proj_pos, project, pc >>

----------------------------------------------------------------------------
(* C22: exactly one task is submitted per work-item id of the project and
   the result of each task is added to the combined row list exactly once:
   the pool is left only when every id has its task and every task was
   collected, and the rows of an item in the combined list are the result of
   its task once it was collected and none before.  In whatever order the
   tasks complete, the rows of one item are contiguous and in the item's
   revision order, and the exported list holds for every item either nothing
   (its fetch failed) or exactly the rows of that item, so the list is the
   same multiset of rows for every completion order. *)
OfItem(row, proj, i) == row.Project = proj /\ row.WorkItemId = i
PositionsOf(list, proj, i) == { m \in 1..Len(list) : OfItem(list[m], proj, i) }
RowsOfItem(list, proj, i) == SelectSeq(list, LAMBDA row : OfItem(row, proj, i))

Contiguous(S) == \A a, b \in S : \A m \in a..b : m \in S

\* the rows process_revisions yields for item i of the project at position p
ExpectedRows(p, i) ==
    TaskRows(PROJECTS[p], i, Lookup(p, i), prefs_map, all_teams)

C22_RowsOfCollectedTasks ==
    /\ InPool =>
          /\ Len(tasks) <= item_count[proj_pos]
          /\ \A i \in DOMAIN tasks :
                RowsOfItem(all_rows, project, i) =
                    IF tasks[i].state = "collected" THEN tasks[i].result ELSE << >>
    /\ script = "blocked_paused" =>
          /\ \A p \in 1..Len(PROJECTS) : \A i \in 1..MaxItems :
                /\ Contiguous(PositionsOf(all_rows, PROJECTS[p], i))
                /\ \A a, b \in PositionsOf(all_rows, PROJECTS[p], i) :
                      a < b => all_rows[a].Revision < all_rows[b].Revision
          /\ pc = "exported" =>
                \A p \in 1..Len(PROJECTS) : \A i \in 1..MaxItems :
                    RowsOfItem(all_rows, PROJECTS[p], i) \in
                        IF listing_ok[p] /\ i <= item_count[p]
                        THEN { << >>, ExpectedRows(p, i) }
                        ELSE { << >> }

C22_PoolLeftWhenEveryTaskWasCollected ==
    (InPool /\ pc' # "pool") =>
        /\ Len(tasks) = item_count[proj_pos]
        /\ \A i \in DOMAIN tasks : tasks[i].state = "collected"
        /\ all_rows' = all_rows

C22_OneTaskPerIdCollectedOnce ==
    /\ []C22_RowsOfCollectedTasks
    /\ [][C22_PoolLeftWhenEveryTaskWasCollected]_vars

\* both items of the second project succeeded and the second one was
\* collected first: its rows precede those of the first item
C22_Witness ==
    /\ script = "blocked_paused"
    /\ pc = "exported"
    /\ item_count = << 1, 2 >>
    /\ Len(all_rows) = 4
    /\ all_rows[1].Project = Proj
    /\ OfItem(all_rows[2], ProjTwo, 2)
    /\ OfItem(all_rows[3], ProjTwo, 2)
    /\ OfItem(all_rows[4], ProjTwo, 1)

----------------------------------------------------------------------------
(* C23: the preference map associates each area path with an ordered set of
   teams: once it is built, no team appears more than once in the entry of
   any area path, also when a team declares the same area path several
   times; an area path declared by a single team has an entry of size one
   and counts as a unique match, so the fixed-index scripts resolve it to
   that team. *)
MapBuilt == pc # "load"
TeamsOfEntry(path) == SeqToSet(prefs_map[path])

C23_EntriesHoldEachTeamOnce ==
    MapBuilt =>
        /\ \A path \in DOMAIN prefs_map :
              /\ \A a, b \in 1..Len(prefs_map[path]) :
                    a # b => prefs_map[path][a] # prefs_map[path][b]
              /\ Cardinality(TeamsOfEntry(path)) = 1 =>
                    /\ Len(prefs_map[path]) = 1
                    /\ UniqueExactMatch(path, prefs_map)
        /\ ( /\ ResolvedByFixedIndex
             /\ area \in DOMAIN prefs_map
             /\ Cardinality(TeamsOfEntry(area)) = 1 ) =>
               team_name \in TeamsOfEntry(area)

----------------------------------------------------------------------------
(* SpecClosed: one work item of a project whose query returned up to MaxIds
   ids; every workitemsbatch request is answered in any of the ways; the item
   has a first revision dated in the window or before it, one that sets
   PAUSED and one that clears it, each with or without a ClosedDate of its
   own *)

OwnClosed == << "8", "T", "0", "Z" >>

ClosedRev(n, date, tags, closed) ==
    [ rev |-> n,
      fields |-> [Fields(date, tags, "Active", PathProjA, "User Story")
                     EXCEPT !.ClosedDate = closed] ]

ClosedTimelines ==
    { << ClosedRev(1, first, TagsNone, c[1]), ClosedRev(2, HourDate(2), PAUSED, c[2]),
         ClosedRev(3, HourDate(3), TagsNone, c[3]) >> :
      first \in { DayBefore, HourDate(1) }, c \in [1..3 -> { EmptyStr, OwnClosed }] }

InitClosed ==
    /\ script = "blocked_paused"
    /\ pc = "load"
    /\ proj_pos = 1
    /\ listing_ok = [k \in 1..Len(PROJECTS) |-> TRUE]
    /\ item_count \in { [k \in 1..Len(PROJECTS) |-> IF k = 1 THEN n ELSE 1] :
                          n \in 1..MaxIds }
    /\ tasks = << >>
    /\ all_rows = << >>
    /\ closed_resp \in { [p \in 1..Len(PROJECTS) |->
                             IF p = 1 THEN a ELSE DefaultAnswers[p]] :
                           a \in [1..MaxBatches -> BatchAnswers] }
    /\ \E id \in 1..MaxIds :
          /\ id <= item_count[1]
          /\ ItemInputsOf(id, << TeamA, TeamB >>, DefaultValues, ClosedTimelines,
                          { NoBoards })

SpecClosed == InitClosed /\ [][Next]_vars

----------------------------------------------------------------------------
(* C24: a missing closed date is never an error.  When a closed-date batch
   request fails, every id of that batch is cached with the empty string, and
   the batches after it are still requested: their ids are cached with what
   the server answered.  Every value of the cache, and what the lookup of the
   work item's id yields (the id being in the cache or not), is a string, the
   empty one when the date is unknown.  The ClosedDate of an event is the
   transition revision's own ClosedDate when that is not empty, else the
   cached value. *)
IsStr(v) == \A k \in 1..Len(v) : v[k] \in DOMAIN OrdTable
CacheFilled == script = "blocked_paused" /\ pc # "load"

C24_MissingClosedDateIsEmptyString ==
    /\ CacheFilled =>
          /\ \A i \in 1..item_count[proj_pos] :
                LET key == KeyOf(proj_pos, i)
                    answer == AnswerFor(proj_pos, i)
                IN  /\ answer = "fail" =>
                          key \in DOMAIN closed_date_cache /\ closed_date_cache[key] = EmptyStr
                    /\ answer = "dates" =>
                          key \in DOMAIN closed_date_cache /\ closed_date_cache[key] = ClosedOn
                    /\ answer = "open" =>
                          key \in DOMAIN closed_date_cache /\ closed_date_cache[key] = EmptyStr
                    /\ answer = "short" =>
                          IF LastOfBatch(i, item_count[proj_pos])
                          THEN key \notin DOMAIN closed_date_cache
                          ELSE closed_date_cache[key] = ClosedOn
          /\ \A key \in DOMAIN closed_date_cache : IsStr(closed_date_cache[key])
    /\ (script = "blocked_paused" /\ pc \in { "loop", "returned" }) =>
          /\ IsStr(closed_date_global)
          /\ closed_date_global = Lookup(proj_pos, wid)
          /\ Answered(proj_pos, wid) \/ closed_date_global = EmptyStr
          /\ \A m \in 1..Len(rows) :
                rows[m].ClosedDate =
                    IF OwnFields(rows[m]).ClosedDate # EmptyStr
                    THEN OwnFields(rows[m]).ClosedDate
                    ELSE Lookup(proj_pos, wid)

\* the first batch failed and the second was answered: the item, of the
\* second batch, has one event with the date of its own revision and one
\* with the cached date, and the ids of the first batch are cached as ''
C24_Witness ==
    /\ pc = "returned"
    /\ item_count[1] = 3
    /\ wid = 3
    /\ AnswerFor(1, 1) = "fail"
    /\ AnswerFor(1, 3) = "dates"
    /\ closed_date_cache[KeyOf(1, 1)] = EmptyStr
    /\ closed_date_cache[KeyOf(1, 2)] = EmptyStr
    /\ Len(rows) = 2
    /\ rows[1].ClosedDate = OwnClosed
    /\ rows[2].ClosedDate = ClosedOn

----------------------------------------------------------------------------
(* blocked_paused.py, fetch_all_revisions: the paginated fetch.  In the steps
   above `fetched` is what the function returned; here it is the history the
   server holds, and the function reads it page by page into all_revs. *)

\* the server's answer to $skip = from, $top = top
ServePage(history, from, top) ==
    SubSeq(history, from + 1, Min(from + top, Len(history)))

\* faulty variant: only an empty page ends the loop
ShortPage_Empty(page, size) == Len(page) = 0

\* line 102: len(revs) < page_size
ShortPage(page, size) == Len(page) < size

\* lines 87-104: one turn of the while loop
FetchPage ==
    /\ pc = "process"
    /\ script = "blocked_paused"
    /\ LET page == ServePage(fetched, skip, page_size)
       IN  /\ page_log' = Append(page_log, skip)
           /\ all_revs' = Extend(all_revs, page)
           /\ IF ShortPage(page, page_size)
              THEN /\ pc' = "paged"
                   /\ skip' = skip
              ELSE /\ pc' = pc
                   /\ skip' = skip + page_size
    /\ UNCHANGED << env, closed_date_global, closed_date_cache, actuals, fixedIndexState,
                    dwellState, boardState, prefs_map, all_teams, revs, idx, prev_tags,
                    rows, run, rows_first >>

(* SpecPages: the server holds a history of 0..MaxHistory revisions, each with
   or without the PAUSED tag; any request may fail *)

PageHistories ==
    UNION { { [k \in 1..n |-> Rev(k, AtStart, t[k], "Active", PathProjA)] :
                t \in [1..n -> { TagsNone, PAUSED }] } :
            n \in 0..MaxHistory }

InitPages ==
    InitWith("blocked_paused", << TeamA, TeamB >>, DefaultValues, PageHistories)

NextPages ==
    \/ LoadTeamsBlockedPaused
    \/ FetchPage
    \/ FetchFails

SpecPages == InitPages /\ [][NextPages]_vars /\ WF_vars(NextPages)

----------------------------------------------------------------------------
(* C25: the paginated fetch terminates and returns the complete history.  For
   a history of N revisions (N >= 0, the multiples of the page size included)
   served in pages of the requested size, the requests are made at skip = 0,
   P, 2P, ...; every page before the last requested one was full; when the
   function returns, the last page it requested was the first short one, no
   page beyond it was requested, and the result is the N revisions, each once,
   in the server's order.  Every run of the function ends, with the result or
   with the exception of a failed request. *)
FetchReturned == pc = "paged"
FetchEnded == pc \in { "paged", "returned" }

C25_PagesInOrder ==
    script = "blocked_paused" =>
        /\ \A k \in 1..Len(page_log) : page_log[k] = (k - 1) * page_size
        /\ \A k \in 1..(Len(page_log) - 1) : k * page_size <= Len(fetched)
        /\ pc = "process" =>
              /\ skip = Len(page_log) * page_size
              /\ skip <= Len(fetched)
              /\ all_revs = SubSeq(fetched, 1, skip)
        /\ FetchReturned =>
              /\ all_revs = fetched
              /\ Len(page_log) = (Len(fetched) \div page_size) + 1
              /\ Len(fetched) < Len(page_log) * page_size
              /\ skip = page_log[Len(page_log)]

C25_Terminates == <>FetchEnded

C25_FetchReturnsTheWholeHistory == []C25_PagesInOrder /\ C25_Terminates

\* a history of two full pages: the third request is answered with the empty
\* page and the function returns the four revisions
C25_Witness ==
    /\ FetchReturned
    /\ Len(fetched) = 2 * page_size
    /\ fetched[1] # fetched[2]
    /\ page_log = << 0, page_size, 2 * page_size >>
    /\ all_revs = fetched

----------------------------------------------------------------------------
(* SpecForms: every revision carries one of three tag sets, written in any of
   several ways (letter case, blanks around the tags, order, repeated tags,
   empty entries); the first revision is dated in the window or before it *)

LowerPaused == << "p","a","u","s","e","d" >>
LowerBlockedA == << "b","l","o","c","k","e","d","_","a" >>

TagForms ==
    << [ tags  |-> {},
         forms |-> { EmptyStr, << " ", ";", " " >> } ],
       [ tags  |-> { PAUSED },
         forms |-> { PAUSED,
                     << " " >> \o LowerPaused \o << " " >>,
                     PAUSED \o << ";", ";" >> \o << "P" >> \o Tail(LowerPaused) } ],
       [ tags  |-> { BLOCKED_A, PAUSED },
         forms |-> { BLOCKED_A \o << ";" >> \o PAUSED,
                     LowerPaused \o << ";", " " >> \o LowerBlockedA,
                     PAUSED \o << ";" >> \o BLOCKED_A \o << " ", ";" >> \o PAUSED } ] >>

AllForms == UNION { TagForms[b].forms : b \in DOMAIN TagForms }

FormTimelines ==
    UNION { { [k \in 1..n |-> Rev(k, IF k = 1 THEN first ELSE HourDate(k), t[k],
                                  "Active", PathProjA)] :
                first \in { DayBefore, HourDate(1) }, t \in [1..n -> AllForms] } :
            n \in 1..MaxRevs }

InitForms ==
    InitWith("blocked_paused", << TeamA, TeamB >>, DefaultValues, FormTimelines)

SpecForms == InitForms /\ [][Next]_vars

----------------------------------------------------------------------------
(* C26: tags are normalised on ingestion (split on ';', blanks trimmed, empty
   entries dropped, upper-cased) and compared as sets.  The tracked tag set of
   a processed revision is the set its tag string denotes, however the string
   is written, and a revision whose tag string differs from that of the
   previously processed revision only in letter case, surrounding blanks,
   order or repetition of the tags emits no event. *)
BaseOf(s) == CHOOSE b \in DOMAIN TagForms : s \in TagForms[b].forms
SameTagsWrittenDifferently(s, t) == BaseOf(s) = BaseOf(t)
LastProcessed == CHOOSE j \in Processed : j < idx /\ \A h \in Processed : h < idx => h <= j

C26_TagsAreComparedAsNormalisedSets ==
    /\ (pc = "loop" /\ prev_tags # None) =>
          prev_tags = Some(TagForms[BaseOf(revs[LastProcessed].fields.Tags)].tags)
    /\ Returned =>
          \A k \in Processed :
              ( /\ ~IsBaseline(k)
                /\ SameTagsWrittenDifferently(revs[k].fields.Tags,
                                              revs[PreviousProcessed(k)].fields.Tags) )
              => RowsOfRevision(revs[k].rev) = {}

\* 'BLOCKED_A;PAUSED', then 'paused; blocked_a' (no event), then the set
\* without BLOCKED_A (one event)
C26_Witness ==
    /\ Returned
    /\ Len(revs) = 3
    /\ Processed = { 1, 2, 3 }
    /\ revs[1].fields.Tags = BLOCKED_A \o << ";" >> \o PAUSED
    /\ revs[2].fields.Tags = LowerPaused \o << ";", " " >> \o LowerBlockedA
    /\ RowsOfRevision(2) = {}
    /\ BaseOf(revs[3].fields.Tags) = 2
    /\ Cardinality(RowsOfRevision(3)) = 1

----------------------------------------------------------------------------
(* C27: for every concrete tag of the interest set (a BLOCKED-prefixed tag,
   or PAUSED) the events of one work item about that tag alternate between
   Added and Removed along the timeline: two consecutive events about the tag
   never carry the same action, and the first one is Added when the baseline
   revision lacked the tag and Removed when it had it. *)
RowsOfTag(tag) == { m \in 1..Len(rows) : RowTag(rows[m]) = tag }
NextOfTag(m, n) ==
    /\ m < n
    /\ RowTag(rows[m]) = RowTag(rows[n])
    /\ \A h \in RowsOfTag(RowTag(rows[m])) : ~(m < h /\ h < n)
FirstOfTag(m) == \A h \in RowsOfTag(RowTag(rows[m])) : m <= h
BaselineTags == TagsAt(CHOOSE k \in Processed : IsBaseline(k))

C27_ActionsAlternatePerTag ==
    Walking =>
        /\ \A m, n \in 1..Len(rows) :
              NextOfTag(m, n) => rows[m].Action # rows[n].Action
        /\ \A m \in 1..Len(rows) :
              FirstOfTag(m) =>
                  rows[m].Action = IF RowTag(rows[m]) \in BaselineTags
                                   THEN "Removed" ELSE "Added"

\* the baseline has BLOCKED_A and PAUSED; both are cleared, set and cleared
\* again: Removed, Added, Removed for each of the two tags
C27_Witness ==
    /\ Returned
    /\ Processed # {}
    /\ BaselineTags = { BLOCKED_A, PAUSED }
    /\ \A tag \in { BLOCKED_A, PAUSED } :
          /\ Cardinality(RowsOfTag(tag)) = 3
          /\ \E m, n, o \in RowsOfTag(tag) :
                /\ NextOfTag(m, n)
                /\ NextOfTag(n, o)
                /\ rows[m].Action = "Removed"
                /\ rows[n].Action = "Added"
                /\ rows[o].Action = "Removed"

----------------------------------------------------------------------------
(* SpecTotal: the area paths, team lists and declarations of SpecResolve
   together with the deeper paths of SpecDeep *)

InitTotal == InitResolve \/ InitDeep

SpecTotal == InitTotal /\ [][NextResolve]_vars

----------------------------------------------------------------------------
(* C28: team resolution is total and closed.  Every entry of the preference
   map the scripts build is a non-empty list of teams of the project, so that
   its first element exists; and for every area path (empty, of one segment,
   or deeper than the scans reach), every declaration of paths and every team
   list, each call site yields a value, which is a team of the project's team
   list or the project identifier. *)
TeamOrProject == all_teams \cup { project }

C28_ResolutionIsTotalAndClosed ==
    /\ MapBuilt =>
          \A path \in DOMAIN prefs_map :
              /\ Len(prefs_map[path]) >= 1
              /\ prefs_map[path][1] \in all_teams
    /\ (script = "blocked_paused" /\ pc = "process" /\ fetched # << >>) =>
          ResolveReversed(fetched[Len(fetched)].fields.AreaPath, project,
                          prefs_map, all_teams) \in TeamOrProject
    /\ ResolvedByReversedScan =>
          /\ actual_team \in TeamOrProject
          /\ \A m \in 1..Len(rows) : rows[m].Team \in TeamOrProject
    /\ ResolvedByFixedIndex => team_name \in TeamOrProject

\* a path deeper than the fixed-index scan reaches, declared by two teams:
\* the call site yields the project
C28_Witness ==
    /\ ResolvedByFixedIndex
    /\ Len(SegmentsOf(area)) = MaxDepth + 1
    /\ area \in DOMAIN prefs_map
    /\ Len(prefs_map[area]) = 2
    /\ team_name = project

----------------------------------------------------------------------------
(* C29: the two fallback policies agree on shallow paths.  For an area path
   of at most three segments whose exact entry in the preference map, if any,
   does not name two or more teams, the scan of all segments from the leaf
   (tag events) and the scan of the segments 2, 1, 0 (the other scripts)
   yield the same team for the same preference map, team set and project. *)
Shallow(path) == Len(SegmentsOf(path)) <= 3

C29_PoliciesAgreeOnShallowPaths ==
    /\ ( /\ ResolvedByReversedScan
         /\ Shallow(FinalFields.AreaPath)
         /\ ~AmbiguousEntry(FinalFields.AreaPath) ) =>
          actual_team = ResolveFixedIndex(FinalFields.AreaPath, project,
                                          prefs_map, all_teams)
    /\ ( /\ ResolvedByFixedIndex
         /\ Shallow(area)
         /\ ~AmbiguousEntry(area) ) =>
          team_name = ResolveReversed(area, project, prefs_map, all_teams)

----------------------------------------------------------------------------
(* C30: the intervals emitted for one work item form a contiguous chain.  The
   Start of every interval is the End of the interval emitted just before it,
   and the Start of the first one is the timestamp of the first valid
   revision.  Every interval carries the column of the dwell it closes; the
   dwell that opens when an interval is closed in the loop differs from the
   closed one in its column or in its entry done flag, and column and done
   flag of an open dwell stay as they are until its interval is emitted: two
   consecutive intervals never have both the same column and the same entry
   done flag. *)
WalkingDwell == script = "column_times" /\ pc \in { "dwell", "item_done" }
Emits == Len(data_rows') = Len(data_rows) + 1
Emitted == data_rows'[Len(data_rows')]

C30_ChainOfStartsAndEnds ==
    WalkingDwell =>
        /\ \A j \in 2..Len(data_rows) : data_rows[j].Start = data_rows[j - 1].End
        /\ data_rows # << >> =>
              /\ ValidPositions # {}
              /\ RowTime(data_rows[1].Start)
                    = ReportTime(revs[FirstValid].fields.ChangedDate)

C30_NextDwellDiffers ==
    WalkingDwell =>
        /\ Emits =>
              /\ SubSeq(data_rows', 1, Len(data_rows)) = data_rows
              /\ Emitted.Column = curr_col[1]
              /\ RowTime(Emitted.Start) = entry_dt[1]
              /\ InDwellLoop =>
                    /\ curr_col' # curr_col \/ entry_done' # entry_done
                    /\ entry_dt' = Some(RowTime(Emitted.End))
        /\ (~Emits /\ curr_col # None) =>
              /\ data_rows' = data_rows
              /\ UNCHANGED << curr_col, entry_dt, entry_done >>

C30_IntervalsFormAChain ==
    []C30_ChainOfStartsAndEnds /\ [][C30_NextDwellDiffers]_vars

\* a closed item: the done flag changes within one column, then the column
\* changes, then the closing date ends the last dwell
C30_Witness ==
    /\ DwellDone
    /\ Len(data_rows) = 3
    /\ data_rows[1].Column = data_rows[2].Column
    /\ data_rows[2].Column # data_rows[3].Column
    /\ data_rows[2].Start = data_rows[1].End
    /\ data_rows[3].Start = data_rows[2].End
    /\ RowTime(data_rows[1].Start) < RowTime(data_rows[1].End)

====
